---- MODULE Spec2Model ----
(***************************************************************************)
(* Jigsaw puzzle: the interactive assembly engine (PuzzleEngine, Hammer.js *)
(* gesture version), the glue code of main.js that saves the puzzle and    *)
(* merges remote updates, and the shared-state file of api.php.            *)
(*                                                                         *)
(* Coordinates are world pixels.  Pointer events carry the world position  *)
(* under the pointer (the camera is the identity here: x = 0, y = 0,       *)
(* scale = 1, the constructor's values).  The reference image stays hidden *)
(* (referenceImage.visible = false, its initial value).                    *)
(***************************************************************************)
EXTENDS Integers, Sequences, FiniteSets, TLC

(***************************************************************************)
(* Program constants and the puzzle that is cut.                           *)
(***************************************************************************)
snapDistance == 40

\* the smallest grid calculateGrid produces
Rows == 2
Cols == 2

\* JavaScript null / undefined
null == -1

\* One lattice step of the positions explored: a piece one step off is
\* inside the snap distance, a piece one diagonal step off is not.
Step == (3 * snapDistance) \div 4

pieceWidth == 2 * Step
pieceHeight == 2 * Step
imageWidth == Cols * pieceWidth
imageHeight == Rows * pieceHeight

Min2(a, b) == IF a < b THEN a ELSE b
Max2(a, b) == IF a > b THEN a ELSE b

tabSize == Min2(pieceWidth, pieceHeight) \div 5
tabPadding == (tabSize * 3) \div 2
width == pieceWidth + tabPadding * 2
height == pieceHeight + tabPadding * 2

NumPieces == Rows * Cols
PieceIds == 0 .. (NumPieces - 1)
row(p) == p \div Cols
col(p) == p % Cols
correctX(p) == col(p) * pieceWidth
correctY(p) == row(p) * pieceHeight

(***************************************************************************)
(* Bounds of the exploration.                                              *)
(***************************************************************************)
\* zIndex grows with every bring-to-front; gestures that would push a
\* zIndex beyond MaxZ are not explored
MaxZ == 6
\* longest lasso path explored
MaxLasso == 3
\* remote updates applied in one run
MaxUpdates == 1
\* drags of each of two users who share a puzzle
MaxMoves == 1

Users == {"A", "B"}

\* offsets from its solved position at which a dragged piece is put down:
\* on it, one step off (inside the snap distance), one diagonal step off
\* (outside), and one step further
DropOffsets == { <<0, 0>>, <<Step, 0>>, <<Step, Step>>, <<2 * Step, Step>> }
\* world positions of the pointer while it moves
PointerX == {Step * i : i \in 1 .. (2 * Cols + 2)}
PointerY == {Step * i : i \in 1 .. (2 * Rows + 2)}
\* world positions at which a gesture starts, and the corners of selection
\* boxes and lasso paths
CoarseX == {Step * (2 * i + 1) : i \in 0 .. Cols}
CoarseY == {Step * (2 * i + 1) : i \in 0 .. Rows}

\* the corners of the lasso paths
CornerX == {Step, Step * (2 * Cols + 1)}
CornerY == {Step, Step * (2 * Rows + 1)}

Modifiers == {"none", "shift", "alt"}

\* eng[u]      the PuzzleEngine of user u
\* gesture[u]  where user u's pointer is in the gesture Hammer.js recognises
\* last        what the last handler that ran did
\* saveTimeout the debounce timer of main.js, per user
\* request     the save request of each user that is on its way to the server
\* server      the shared puzzle file of api.php
\* unseen      the subscribers whose event stream has not sent the file yet
\* updates     the number of remote updates applied so far
\* moved       where each user put down the piece that user works on, drag
\*             after drag
\* view        the camera's part of the engine (camera, edge panning, pinch
\*             and pan anchors, hold timer)
\* event       the last pointer event the camera's part has handled
\* clock       the time and the timer of the debounced save
\* page        the page script: the image it shows, the seed and the cut it
\*             holds, whether a puzzle is loaded
\* file        the state file api.php keeps for each image
\* front[u]    the highest zIndex bringSelectedToFront has assigned in the
\*             engine of user u so far (0 before the first)
VARIABLES eng, gesture, last, saveTimeout, request, server, unseen, updates, moved,
          view, event, clock, page, file, front

vars == <<eng, gesture, last, saveTimeout, request, server, unseen, updates, moved, view, event, clock, page, file, front>>

(***************************************************************************)
(* Sequences used as the program's arrays and insertion-ordered Sets.      *)
(***************************************************************************)
Range(s) == {s[i] : i \in 1 .. Len(s)}
InSeq(x, s) == \E i \in 1 .. Len(s) : s[i] = x
SetAdd(s, x) == IF InSeq(x, s) THEN s ELSE Append(s, x)

RECURSIVE SetToSeq(_)
\* ascending order: the order of the pieces array
SetToSeq(S) ==
    IF S = {} THEN <<>>
    ELSE LET m == CHOOSE x \in S : \A y \in S : x <= y
         IN <<m>> \o SetToSeq(S \ {m})

IndexOf(x, s) == CHOOSE i \in 1 .. Len(s) : s[i] = x

(***************************************************************************)
(* PuzzleCutter: the pieces handed to the engine.                          *)
(***************************************************************************)
\* scatter position generated for grid cell c (random offset at mid-range)
scatterX(c) == col(c) * pieceWidth + pieceWidth \div 5 + (pieceWidth * 3) \div 10
scatterY(c) == row(c) * pieceHeight + pieceHeight \div 5 + (pieceHeight * 3) \div 10

\* the shuffle explored: piece p gets the scatter position of cell shuffle[p]
\* (no piece on its own cell)
shuffle == [p \in PieceIds |-> (p + 1) % NumPieces]

createPiece(id, cell) ==
    [ currentX |-> scatterX(cell), currentY |-> scatterY(cell),
      isPlaced |-> FALSE, isSelected |-> FALSE, isLocked |-> FALSE,
      zIndex |-> id, groupId |-> null ]

(***************************************************************************)
(* PuzzleEngine.                                                           *)
(***************************************************************************)
constructor ==
    [ pieces |-> <<>>,
      selectedPieces |-> <<>>,
      groups |-> <<>>,
      nextGroupId |-> 0,
      placedPieces |-> 0,
      onPieceMoveEnd |-> FALSE,
      input |-> [ isDragging |-> FALSE, isPanning |-> FALSE,
                  isSelecting |-> FALSE, isLassoMode |-> FALSE,
                  isDrawingLasso |-> FALSE, lassoPath |-> <<>>,
                  startX |-> 0, startY |-> 0,
                  currentX |-> 0, currentY |-> 0,
                  heldPiece |-> null ] ]

\* setPieces: every piece in its own group, ids 0, 1, 2, ...
setPieces(e, ps) ==
    [ e EXCEPT
        !.pieces = [p \in DOMAIN ps |-> [ps[p] EXCEPT !.groupId = p]],
        !.placedPieces = 0,
        !.selectedPieces = <<>>,
        !.groups = [g \in DOMAIN ps |-> <<g>>],
        !.nextGroupId = Cardinality(DOMAIN ps) ]

hasGroup(e, g) == g \in DOMAIN e.groups

maxZ(e) == CHOOSE z \in {e.pieces[p].zIndex : p \in PieceIds} :
               \A p \in PieceIds : e.pieces[p].zIndex <= z

bringSelectedToFront(e) ==
    LET m == maxZ(e)
        sel == e.selectedPieces
    IN [ e EXCEPT !.pieces =
           [p \in PieceIds |->
              IF InSeq(p, sel)
              THEN [e.pieces[p] EXCEPT !.zIndex = m + IndexOf(p, sel)]
              ELSE e.pieces[p]] ]

clearSelection(e) ==
    [ e EXCEPT
        !.pieces = [p \in PieceIds |->
                      IF InSeq(p, e.selectedPieces)
                      THEN [e.pieces[p] EXCEPT !.isSelected = FALSE]
                      ELSE e.pieces[p]],
        !.selectedPieces = <<>> ]

\* piece.isSelected = true; selectedPieces.push(piece)
selectPush(e, p) ==
    [ e EXCEPT !.pieces[p].isSelected = TRUE,
               !.selectedPieces = Append(e.selectedPieces, p) ]

RECURSIVE selectAll(_, _)
selectAll(e, ids) ==
    IF ids = <<>> THEN e
    ELSE selectAll(selectPush(e, Head(ids)), Tail(ids))

activatePieceDrag(e, piece) ==
    LET e1 == [e EXCEPT !.input.isDragging = TRUE, !.input.isPanning = FALSE]
    IN IF e1.pieces[piece].isSelected
       THEN bringSelectedToFront(e1)
       ELSE LET e2 == clearSelection(e1)
                g == e2.pieces[piece].groupId
                e3 == IF hasGroup(e2, g)
                      THEN selectAll(e2, SelectSeq(e2.groups[g], LAMBDA q : q \in PieceIds))
                      ELSE [ e2 EXCEPT !.pieces[piece].isSelected = TRUE,
                                       !.selectedPieces = <<piece>> ]
            IN bringSelectedToFront(e3)

\* the piece's bitmap is opaque over the body of the piece (the cell without
\* the padding that holds the tabs)
isPointInPiece(e, x, y, p) ==
    LET relX == x - e.pieces[p].currentX
        relY == y - e.pieces[p].currentY
    IN /\ ~(relX < 0 \/ relY < 0 \/ relX > width \/ relY > height)
       /\ relX >= tabPadding /\ relX <= tabPadding + pieceWidth
       /\ relY >= tabPadding /\ relY <= tabPadding + pieceHeight

\* topmost unlocked piece under the point; the sort is stable, so among
\* equal zIndex the piece earlier in the array wins
getPieceAt(e, x, y) ==
    LET hit == {p \in PieceIds : ~e.pieces[p].isLocked /\ isPointInPiece(e, x, y, p)}
    IN IF hit = {} THEN null
       ELSE CHOOSE p \in hit :
              \A q \in hit :
                 \/ e.pieces[q].zIndex < e.pieces[p].zIndex
                 \/ (e.pieces[q].zIndex = e.pieces[p].zIndex /\ p <= q)

moveSelectedPieces(e, dx, dy) ==
    [ e EXCEPT !.pieces =
        [p \in PieceIds |->
           IF InSeq(p, e.selectedPieces)
           THEN [e.pieces[p] EXCEPT !.currentX = @ + dx, !.currentY = @ + dy]
           ELSE e.pieces[p]] ]

centerX(e, p) == e.pieces[p].currentX + width \div 2
centerY(e, p) == e.pieces[p].currentY + height \div 2

selectPiecesInBox(e) ==
    LET minX == Min2(e.input.startX, e.input.currentX)
        maxX == Max2(e.input.startX, e.input.currentX)
        minY == Min2(e.input.startY, e.input.currentY)
        maxY == Max2(e.input.startY, e.input.currentY)
        e1 == clearSelection(e)
        inBox == {p \in PieceIds :
                    /\ centerX(e, p) >= minX /\ centerX(e, p) <= maxX
                    /\ centerY(e, p) >= minY /\ centerY(e, p) <= maxY}
    IN selectAll(e1, SetToSeq(inBox))

\* ray casting; the comparison x < (xj - xi) * (y - yi) / (yj - yi) + xi is
\* cleared of its division
crosses(x, y, pi, pj) ==
    /\ (pi.y > y) # (pj.y > y)
    /\ IF pj.y - pi.y > 0
       THEN (x - pi.x) * (pj.y - pi.y) < (pj.x - pi.x) * (y - pi.y)
       ELSE (x - pi.x) * (pj.y - pi.y) > (pj.x - pi.x) * (y - pi.y)

pointInPolygon(x, y, polygon) ==
    LET n == Len(polygon)
        prev(i) == IF i = 1 THEN n ELSE i - 1
        hits == {i \in 1 .. n : crosses(x, y, polygon[i], polygon[prev(i)])}
    IN Cardinality(hits) % 2 = 1

selectPiecesInLasso(e) ==
    IF Len(e.input.lassoPath) < 3 THEN e
    ELSE LET e1 == clearSelection(e)
             inLasso == {p \in PieceIds :
                           /\ ~e.pieces[p].isLocked
                           /\ pointInPolygon(centerX(e, p), centerY(e, p),
                                             e.input.lassoPath)}
         IN selectAll(e1, SetToSeq(inLasso))

\* dx * dx + dy * dy < snapDist * snapDist, the square of
\* Math.sqrt(dx * dx + dy * dy) < snapDist
within(dx, dy, snapDist) == dx * dx + dy * dy < snapDist * snapDist

\* a moveGroup that falls back on the selection when the group is gone
moveGroupOrSelection(e, groupId, dx, dy) ==
    IF ~hasGroup(e, groupId) THEN moveSelectedPieces(e, dx, dy)
    ELSE [ e EXCEPT !.pieces =
             [p \in PieceIds |->
                IF InSeq(p, e.groups[groupId])
                THEN [e.pieces[p] EXCEPT !.currentX = @ + dx, !.currentY = @ + dy]
                ELSE e.pieces[p]] ]

moveGroup(e, groupId, dx, dy) ==
    IF ~hasGroup(e, groupId) THEN e
    ELSE [ e EXCEPT !.pieces =
             [p \in PieceIds |->
                IF InSeq(p, e.groups[groupId])
                THEN [e.pieces[p] EXCEPT !.currentX = @ + dx, !.currentY = @ + dy]
                ELSE e.pieces[p]] ]

\* the same loop without the absorption into the selection
absorbUnselected(e, groupA, ids) ==
    [ e EXCEPT
        !.groups[groupA] = e.groups[groupA] \o
              SelectSeq(ids, LAMBDA q : ~InSeq(q, e.groups[groupA])),
        !.pieces = [p \in PieceIds |->
                      IF InSeq(p, ids)
                      THEN [e.pieces[p] EXCEPT !.groupId = groupA]
                      ELSE e.pieces[p]] ]

RECURSIVE absorb(_, _, _)
\* the body of piecesB.forEach in mergeGroups
absorb(e, groupA, ids) ==
    IF ids = <<>> THEN e
    ELSE LET id == Head(ids)
             e1 == [e EXCEPT !.groups[groupA] = SetAdd(@, id)]
             e2 == IF id \in PieceIds
                   THEN LET e3 == [e1 EXCEPT !.pieces[id].groupId = groupA]
                        IN IF ~e3.pieces[id].isSelected
                           THEN selectPush(e3, id)
                           ELSE e3
                   ELSE e1
         IN absorb(e2, groupA, Tail(ids))

\* a merge that leaves the absorbed group in the map
mergeGroupsKeepB(e, groupA, groupB) ==
    IF groupA = groupB THEN e
    ELSE IF ~(groupA \in DOMAIN e.groups) \/ ~(groupB \in DOMAIN e.groups) THEN e
    ELSE absorbUnselected(e, groupA, e.groups[groupB])

mergeGroups(e, groupA, groupB) ==
    IF groupA = groupB THEN e
    ELSE IF ~hasGroup(e, groupA) \/ ~hasGroup(e, groupB) THEN e
    ELSE LET e1 == absorb(e, groupA, e.groups[groupB])
         IN [ e1 EXCEPT !.groups =
                [g \in (DOMAIN e1.groups) \ {groupB} |-> e1.groups[g]] ]

\* a final snap that counts every member of the group, placed before or not
snapCountingAll(e, groupId) ==
    IF ~hasGroup(e, groupId) THEN e
    ELSE LET ids == {p \in PieceIds : InSeq(p, e.groups[groupId])}
         IN [ clearSelection(e) EXCEPT
                !.pieces = [p \in PieceIds |->
                              IF p \in ids
                              THEN [clearSelection(e).pieces[p] EXCEPT
                                      !.currentX = correctX(p),
                                      !.currentY = correctY(p),
                                      !.isLocked = TRUE,
                                      !.isPlaced = TRUE]
                              ELSE clearSelection(e).pieces[p]],
                !.placedPieces = @ + Cardinality(ids) ]

\* a final snap that places only the members that are selected
snapSelectedOnly(e, groupId) ==
    IF ~hasGroup(e, groupId) THEN e
    ELSE LET ids == {p \in PieceIds : InSeq(p, e.groups[groupId])
                                      /\ InSeq(p, e.selectedPieces)}
         IN [ clearSelection(e) EXCEPT
                !.pieces = [p \in PieceIds |->
                              IF p \in ids
                              THEN [clearSelection(e).pieces[p] EXCEPT
                                      !.currentX = correctX(p),
                                      !.currentY = correctY(p),
                                      !.isLocked = TRUE,
                                      !.isPlaced = TRUE]
                              ELSE clearSelection(e).pieces[p]],
                !.placedPieces = @ + Cardinality({p \in ids : ~e.pieces[p].isPlaced}) ]

snapGroupToFinalPosition(e, groupId) ==
    IF ~hasGroup(e, groupId) THEN e
    ELSE LET ids == {p \in PieceIds : InSeq(p, e.groups[groupId])}
             newly == {p \in ids : ~e.pieces[p].isPlaced}
         IN [ e EXCEPT
                !.pieces =
                  [p \in PieceIds |->
                     LET a == IF p \in ids
                              THEN [e.pieces[p] EXCEPT
                                      !.currentX = correctX(p),
                                      !.currentY = correctY(p),
                                      !.isLocked = TRUE,
                                      !.isPlaced = TRUE]
                              ELSE e.pieces[p]
                     IN IF InSeq(p, e.selectedPieces)
                        THEN [a EXCEPT !.isSelected = FALSE]
                        ELSE a],
                !.placedPieces = @ + Cardinality(newly),
                !.selectedPieces = <<>> ]

\* a neighbour test that takes any piece of another group
isNeighborAny(e, piece, p) ==
    /\ p # piece
    /\ e.pieces[p].groupId # e.pieces[piece].groupId

isNeighbor(e, piece, p) ==
    /\ p # piece
    /\ e.pieces[p].groupId # e.pieces[piece].groupId
    /\ LET rowDiff == IF row(p) >= row(piece) THEN row(p) - row(piece)
                      ELSE row(piece) - row(p)
           colDiff == IF col(p) >= col(piece) THEN col(p) - col(piece)
                      ELSE col(piece) - col(p)
       IN (rowDiff = 1 /\ colDiff = 0) \/ (rowDiff = 0 /\ colDiff = 1)

RECURSIVE snapToNeighbors(_, _, _, _)
\* the body of neighbors.forEach in checkAdjacentSnapping
snapToNeighbors(e, piece, neighbors, snapDist) ==
    IF neighbors = <<>> THEN e
    ELSE LET neighbor == Head(neighbors)
             expectedX == e.pieces[neighbor].currentX
                          + (col(piece) - col(neighbor)) * (width - tabPadding * 2)
             expectedY == e.pieces[neighbor].currentY
                          + (row(piece) - row(neighbor)) * (height - tabPadding * 2)
             dx == expectedX - e.pieces[piece].currentX
             dy == expectedY - e.pieces[piece].currentY
             e1 == IF within(dx, dy, snapDist)
                   THEN mergeGroups(moveGroup(e, e.pieces[piece].groupId, dx, dy),
                                    e.pieces[piece].groupId,
                                    e.pieces[neighbor].groupId)
                   ELSE e
         IN snapToNeighbors(e1, piece, Tail(neighbors), snapDist)

checkAdjacentSnapping(e, piece, snapDist) ==
    LET neighbors == SetToSeq({p \in PieceIds : isNeighbor(e, piece, p)})
    IN snapToNeighbors(e, piece, neighbors, snapDist)

RECURSIVE adjacentAll(_, _, _)
\* selectedPieces.forEach: the pieces selected when the loop starts
adjacentAll(e, sel, snapDist) ==
    IF sel = <<>> THEN e
    ELSE adjacentAll(checkAdjacentSnapping(e, Head(sel), snapDist), Tail(sel), snapDist)

\* the selected pieces within the snap distance of their solved position
finalCandidates(e, snapDist) ==
    SelectSeq(e.selectedPieces,
              LAMBDA p : within(correctX(p) - e.pieces[p].currentX,
                                correctY(p) - e.pieces[p].currentY, snapDist))

checkSnapping(e) ==
    LET snapDist == snapDistance
        cand == finalCandidates(e, snapDist)
    IN IF cand # <<>>
       THEN snapGroupToFinalPosition(e, e.pieces[Head(cand)].groupId)
       ELSE adjacentAll(e, e.selectedPieces, snapDist)

(***************************************************************************)
(* Gesture handlers.                                                       *)
(***************************************************************************)
onHammerPress(e, x, y) ==
    LET piece == getPieceAt(e, x, y)
    IN IF piece # null
       THEN LET e1 == activatePieceDrag([e EXCEPT !.input.heldPiece = piece], piece)
            IN [e1 EXCEPT !.input.startX = x, !.input.startY = y]
       ELSE clearSelection(e)

onHammerPressUp(e) ==
    [e EXCEPT !.input.heldPiece = null, !.input.isDragging = FALSE]

onHammerPanStart(e, x, y, modifier) ==
    LET e1 == [e EXCEPT !.input.startX = x, !.input.startY = y]
        piece == getPieceAt(e1, x, y)
    IN IF e1.input.isDragging THEN e1
       ELSE IF e1.input.isLassoMode
       THEN [ e1 EXCEPT !.input.isDrawingLasso = TRUE,
                        !.input.lassoPath = << [x |-> x, y |-> y] >> ]
       ELSE IF modifier = "shift"
       THEN [e1 EXCEPT !.input.isSelecting = TRUE]
       ELSE IF modifier = "alt" /\ piece # null
       THEN activatePieceDrag(e1, piece)
       ELSE [e1 EXCEPT !.input.isPanning = TRUE]

onHammerPanMove(e, x, y) ==
    LET e1 == [e EXCEPT !.input.currentX = x, !.input.currentY = y]
    IN IF e1.input.isDrawingLasso
       THEN [e1 EXCEPT !.input.lassoPath = Append(@, [x |-> x, y |-> y])]
       ELSE IF e1.input.isDragging
       THEN LET e2 == moveSelectedPieces(e1, x - e1.input.startX, y - e1.input.startY)
            IN [e2 EXCEPT !.input.startX = x, !.input.startY = y]
       ELSE e1

onHammerPanEnd(e) ==
    LET e1 == IF e.input.isDrawingLasso
              THEN [ selectPiecesInLasso(e) EXCEPT
                       !.input.isDrawingLasso = FALSE,
                       !.input.lassoPath = <<>>,
                       !.input.isLassoMode = FALSE ]
              ELSE e
        e2 == IF e1.input.isDragging
              THEN [ (IF Len(e1.selectedPieces) > 0 THEN checkSnapping(e1) ELSE e1)
                     EXCEPT !.input.isDragging = FALSE ]
              ELSE IF e1.input.isSelecting
              THEN [selectPiecesInBox(e1) EXCEPT !.input.isSelecting = FALSE]
              ELSE e1
    IN [e2 EXCEPT !.input.isPanning = FALSE, !.input.heldPiece = null]

onHammerTap(e, x, y) ==
    IF getPieceAt(e, x, y) = null THEN clearSelection(e) ELSE e

\* the click handler of the lasso button
lassoClick(e) ==
    IF e.input.isLassoMode
    THEN [e EXCEPT !.input.isLassoMode = FALSE, !.input.lassoPath = <<>>]
    ELSE [e EXCEPT !.input.isLassoMode = TRUE]

(***************************************************************************)
(* main.js: saving the puzzle and merging what other users saved.          *)
(***************************************************************************)
getPuzzleState(e) ==
    [ pieces |->
        [ i \in 1 .. NumPieces |->
            LET p == i - 1
            IN [ id |-> p,
                 currentX |-> e.pieces[p].currentX,
                 currentY |-> e.pieces[p].currentY,
                 isPlaced |-> e.pieces[p].isPlaced,
                 isLocked |-> e.pieces[p].isLocked,
                 groupId |-> e.pieces[p].groupId,
                 zIndex |-> e.pieces[p].zIndex ] ] ]

\* no saved state: no file on the server, no request on its way
none == [pieces |-> <<>>]

\* the entries of savedPieces that carry a group assignment
grouped(savedPieces) == SelectSeq(savedPieces, LAMBDA sp : sp.groupId # null)

RECURSIVE firstSeen(_)
\* the keys of groupMap in insertion order
firstSeen(saved) ==
    IF saved = <<>> THEN <<>>
    ELSE SetAdd(firstSeen(SubSeq(saved, 1, Len(saved) - 1)),
                saved[Len(saved)].groupId)

RECURSIVE membersOf(_, _)
\* groupMap.get(g): the ids saved with group g, in insertion order
membersOf(saved, g) ==
    IF saved = <<>> THEN <<>>
    ELSE LET rest == membersOf(SubSeq(saved, 1, Len(saved) - 1), g)
             sp == saved[Len(saved)]
         IN IF sp.groupId = g THEN SetAdd(rest, sp.id) ELSE rest

rebuildGroups(e, savedPieces) ==
    LET saved == grouped(savedPieces)
        order == firstSeen(saved)
        ids == Range(order)
        maxGroupId == CHOOSE m \in ids \cup {0} : \A g \in ids \cup {0} : g <= m
        \* the last group in groupMap's order that lists the piece
        owner(p) == LET at == {i \in 1 .. Len(order) : InSeq(p, membersOf(saved, order[i]))}
                    IN IF at = {} THEN null
                       ELSE order[CHOOSE i \in at : \A j \in at : j <= i]
    IN [ e EXCEPT
           !.groups = [g \in ids |-> membersOf(saved, g)],
           !.pieces = [p \in PieceIds |->
                         IF owner(p) # null
                         THEN [e.pieces[p] EXCEPT !.groupId = owner(p)]
                         ELSE e.pieces[p]],
           !.nextGroupId = maxGroupId + 1 ]

\* remotePuzzle.pieces.filter(p => p.isPlaced || p.isLocked).length
placedCount(savedPieces) ==
    Len(SelectSeq(savedPieces, LAMBDA sp : sp.isPlaced \/ sp.isLocked))

handleRemotePuzzleUpdate(e, remotePuzzle) ==
    LET localSelectedIds == Range(e.selectedPieces)
        entries(p) == {i \in 1 .. Len(remotePuzzle.pieces) : remotePuzzle.pieces[i].id = p}
        \* every entry of a piece overwrites the one before it
        remotePiece(p) == remotePuzzle.pieces[CHOOSE i \in entries(p) :
                                                 \A j \in entries(p) : j <= i]
        e1 == [ e EXCEPT !.pieces =
                  [p \in PieceIds |->
                     IF p \in localSelectedIds \/ entries(p) = {}
                     THEN e.pieces[p]
                     ELSE [ e.pieces[p] EXCEPT
                              !.currentX = remotePiece(p).currentX,
                              !.currentY = remotePiece(p).currentY,
                              !.isPlaced = remotePiece(p).isPlaced,
                              !.isLocked = remotePiece(p).isLocked,
                              !.zIndex = remotePiece(p).zIndex ]] ]
        e2 == rebuildGroups(e1, remotePuzzle.pieces)
    IN [e2 EXCEPT !.placedPieces = placedCount(remotePuzzle.pieces)]

restoreSharedPuzzle(e, puzzleData) ==
    LET entries(p) == {i \in 1 .. Len(puzzleData.pieces) : puzzleData.pieces[i].id = p}
        \* puzzleData.pieces.find: the first entry of the piece
        savedPiece(p) == puzzleData.pieces[CHOOSE i \in entries(p) :
                                              \A j \in entries(p) : i <= j]
        pieces == [p \in PieceIds |->
                     IF entries(p) = {}
                     THEN createPiece(p, shuffle[p])
                     ELSE [ createPiece(p, shuffle[p]) EXCEPT
                              !.currentX = savedPiece(p).currentX,
                              !.currentY = savedPiece(p).currentY,
                              !.isPlaced = savedPiece(p).isPlaced,
                              !.isLocked = savedPiece(p).isLocked,
                              !.zIndex = savedPiece(p).zIndex ]]
        e1 == rebuildGroups(setPieces(e, pieces), puzzleData.pieces)
    IN [e1 EXCEPT !.placedPieces = placedCount(puzzleData.pieces)]

\* the engine of a page that has cut the image: init() wires the engine's
\* callback to handlePieceMoveEnd
NewEngine == setPieces(constructor, [p \in PieceIds |-> createPiece(p, shuffle[p])])
init == [NewEngine EXCEPT !.onPieceMoveEnd = TRUE]

(***************************************************************************)
(* What another user's page can have saved, and what a damaged file holds. *)
(***************************************************************************)
\* a whole hold-and-drag gesture that puts piece p down at offset off from
\* its solved position
Drag(e, p, off) ==
    LET x == e.pieces[p].currentX + width \div 2
        y == e.pieces[p].currentY + height \div 2
        e1 == onHammerPanStart(onHammerPress(e, x, y), x, y, "none")
        e2 == onHammerPanMove(e1, x + correctX(p) + off[1] - e.pieces[p].currentX,
                                  y + correctY(p) + off[2] - e.pieces[p].currentY)
    IN onHammerPanEnd(e2)

\* the other user moved piece 3 and locked nothing
peerMoved == getPuzzleState(Drag(init, NumPieces - 1, <<2 * Step, Step>>))
\* the other user put piece 0 on its solved position
peerPlaced == getPuzzleState(Drag(init, 0, <<0, 0>>))
\* the other user joined pieces 0 and 1
peerMerged == getPuzzleState(Drag(Drag(init, 0, <<Step, Step>>), 1, <<Step, Step>>))

without(state, p) == [pieces |-> SelectSeq(state.pieces, LAMBDA sp : sp.id # p)]
ungrouped(state, p) ==
    [pieces |-> [i \in 1 .. Len(state.pieces) |->
                   IF state.pieces[i].id = p
                   THEN [state.pieces[i] EXCEPT !.groupId = null]
                   ELSE state.pieces[i]]]
withGhost(state) ==
    [pieces |-> Append(state.pieces,
                       [state.pieces[1] EXCEPT !.id = NumPieces, !.groupId = 1])]
twice(state, p) ==
    [pieces |-> Append(state.pieces,
                       [state.pieces[p + 1] EXCEPT !.groupId = NumPieces - 1])]

WellFormed == {peerMoved, peerPlaced, peerMerged}
\* a piece missing, a piece without group, an id that is no piece, a piece
\* listed in two groups
Malformed == { without(peerMerged, 0), ungrouped(peerMerged, 0),
               withGhost(peerMerged), twice(peerMerged, 0) }
Payloads == WellFormed \cup Malformed

(***************************************************************************)
(* The camera's part of the engine: camera, edge panning, the anchors of   *)
(* pan and pinch, and (in the engine with its own touch handlers) the hold *)
(* timer.  The handlers below are the gesture handlers again, on this part *)
(* of the engine's state; what getPieceAt finds under the pointer is an    *)
(* input.  Positions are screen pixels.  camera.scale and the scale of a   *)
(* pinch event count in units of 1 / ScaleOne, world coordinates in units  *)
(* of 1 / 100 pixel; a division rounds down where JavaScript rounds to the *)
(* nearest double.                                                         *)
(***************************************************************************)
\* canvas.width, canvas.height: the size of the container
canvasWidth == 800
canvasHeight == 600
edgePanThreshold == 60
edgePanSpeed == 5
\* camera.scale = 1
ScaleOne == 100
\* Math.max(0.1, Math.min(5, ...))
scaleMin == ScaleOne \div 10
scaleMax == 5 * ScaleOne
clampScale(s) == Max2(scaleMin, Min2(scaleMax, s))
\* the movement, in screen pixels, a pending hold puts up with
holdTolerance == 10

constructorView ==
    [ camera |-> [x |-> 0, y |-> 0, scale |-> ScaleOne],
      hasPieces |-> FALSE,
      isDragging |-> FALSE, isPanning |-> FALSE, isPinching |-> FALSE,
      holdTimer |-> FALSE,
      panStartScreenX |-> 0, panStartScreenY |-> 0,
      pinchStartScale |-> ScaleOne,
      pinchWorldX |-> 0, pinchWorldY |-> 0,
      pinchStartCamX |-> 0, pinchStartCamY |-> 0,
      pinchStartScreenX |-> 0, pinchStartScreenY |-> 0,
      edgePanning |-> [active |-> FALSE, velocityX |-> 0, velocityY |-> 0] ]

\* x, y: where the pointer is; startX, startY: where its gesture began
\* scale: the scale of a pinch event; n: how many zoom events there have been
noEvent ==
    [ type |-> "none", x |-> 0, y |-> 0, startX |-> 0, startY |-> 0,
      scale |-> ScaleOne, n |-> 0 ]

screenToWorld(v, screenX, screenY) ==
    [ x |-> ((screenX - v.camera.x) * 100 * ScaleOne) \div v.camera.scale,
      y |-> ((screenY - v.camera.y) * 100 * ScaleOne) \div v.camera.scale ]

worldToScreen(v, worldX, worldY) ==
    [ x |-> (worldX * v.camera.scale) \div (100 * ScaleOne) + v.camera.x,
      y |-> (worldY * v.camera.scale) \div (100 * ScaleOne) + v.camera.y ]

\* the centre of the solved puzzle: (minX + maxX) / 2 over correctX and
\* correctX + width
calculatePuzzleBounds ==
    [ centerX |-> (0 + (Cols - 1) * pieceWidth + width) \div 2,
      centerY |-> (0 + (Rows - 1) * pieceHeight + height) \div 2 ]

\* setPieces, the camera's part: the camera is centred on the puzzle
setPiecesView(v) ==
    [ v EXCEPT !.hasPieces = TRUE,
               !.camera.x = canvasWidth \div 2 - calculatePuzzleBounds.centerX,
               !.camera.y = canvasHeight \div 2 - calculatePuzzleBounds.centerY ]

resetView(v) ==
    IF v.hasPieces
    THEN [ v EXCEPT !.camera =
             [ x |-> canvasWidth \div 2 - calculatePuzzleBounds.centerX,
               y |-> canvasHeight \div 2 - calculatePuzzleBounds.centerY,
               scale |-> ScaleOne ] ]
    ELSE v

\* restoreSharedPuzzle of the page script before the last one, the camera's
\* part: setPieces, then the saved camera, if there is one, as it is
restoreSavedCamera(v, puzzleData) ==
    IF puzzleData.hasCamera
    THEN [setPiecesView(v) EXCEPT !.camera = puzzleData.camera]
    ELSE setPiecesView(v)

\* restoreSharedPuzzle of the last page script, the camera's part: setPieces,
\* then resetView; the saved camera (puzzleData.camera) is not read
restoreView(v, puzzleData) == resetView(setPiecesView(v))

\* zoomFactor is 0.9 or 1.1; worldBefore and worldAfter are both computed
\* after the scale is assigned
handleWheel(v, mouseX, mouseY, deltaY) ==
    LET zoomFactor == IF deltaY > 0 THEN 9 ELSE 11
        v1 == [v EXCEPT !.camera.scale = clampScale((v.camera.scale * zoomFactor) \div 10)]
        worldBefore == screenToWorld(v1, mouseX, mouseY)
        worldAfter == screenToWorld(v1, mouseX, mouseY)
    IN [ v1 EXCEPT !.camera.x = @ + (worldAfter.x - worldBefore.x),
                   !.camera.y = @ + (worldAfter.y - worldBefore.y) ]

onHammerPinchStart(v, screenX, screenY) ==
    LET worldPos == screenToWorld(v, screenX, screenY)
    IN [ v EXCEPT !.isPinching = TRUE, !.isPanning = FALSE,
                  !.pinchWorldX = worldPos.x, !.pinchWorldY = worldPos.y,
                  !.pinchStartScale = v.camera.scale,
                  !.pinchStartCamX = v.camera.x, !.pinchStartCamY = v.camera.y,
                  !.pinchStartScreenX = screenX, !.pinchStartScreenY = screenY ]

\* a pinch move that zooms about the centre of the frame before, on the
\* camera of the frame before
pinchMoveIncremental(v, currentScreenX, currentScreenY, scale) ==
    IF ~v.isPinching THEN v
    ELSE LET newScale == clampScale((v.pinchStartScale * scale) \div ScaleOne)
             worldPos == screenToWorld(v, v.pinchStartScreenX, v.pinchStartScreenY)
             v1 == [v EXCEPT !.camera.scale = newScale]
             screenPos == worldToScreen(v1, worldPos.x, worldPos.y)
         IN [ v1 EXCEPT
                !.camera.x = @ + (v.pinchStartScreenX - screenPos.x)
                               + (currentScreenX - v.pinchStartScreenX),
                !.camera.y = @ + (v.pinchStartScreenY - screenPos.y)
                               + (currentScreenY - v.pinchStartScreenY),
                !.pinchStartScreenX = currentScreenX,
                !.pinchStartScreenY = currentScreenY ]

onHammerPinchMove(v, currentScreenX, currentScreenY, scale) ==
    IF ~v.isPinching THEN v
    ELSE LET newScale == clampScale((v.pinchStartScale * scale) \div ScaleOne)
         IN [ v EXCEPT
                !.camera = [ scale |-> newScale,
                             x |-> currentScreenX
                                    - (v.pinchWorldX * newScale) \div (100 * ScaleOne),
                             y |-> currentScreenY
                                    - (v.pinchWorldY * newScale) \div (100 * ScaleOne) ] ]

\* e.center is given or not
onHammerPinchEnd(v, center) ==
    IF center.given
    THEN [ v EXCEPT !.isPinching = FALSE,
                    !.panStartScreenX = center.x, !.panStartScreenY = center.y ]
    ELSE [v EXCEPT !.isPinching = FALSE]

updateEdgePanning(v, screenX, screenY) ==
    LET threshold == edgePanThreshold
        speed == edgePanSpeed
        velocityX == IF screenX < threshold THEN speed
                     ELSE IF screenX > canvasWidth - threshold THEN -speed
                     ELSE 0
        velocityY == IF screenY < threshold THEN speed
                     ELSE IF screenY > canvasHeight - threshold THEN -speed
                     ELSE 0
    IN [ v EXCEPT !.edgePanning =
           [ active |-> (velocityX # 0 \/ velocityY # 0),
             velocityX |-> velocityX, velocityY |-> velocityY ] ]

applyEdgePanning(v) ==
    IF v.edgePanning.active
    THEN [ v EXCEPT !.camera.x = @ + v.edgePanning.velocityX,
                    !.camera.y = @ + v.edgePanning.velocityY ]
    ELSE v

\* onHammerPress: a piece under the pointer starts the drag
onHammerPressView(v, piece) ==
    IF piece THEN [v EXCEPT !.isDragging = TRUE, !.isPanning = FALSE] ELSE v

onHammerPressUpView(v) == [v EXCEPT !.isDragging = FALSE]

onHammerPanStartView(v, screenX, screenY, modifier, piece) ==
    LET v1 == [v EXCEPT !.panStartScreenX = screenX, !.panStartScreenY = screenY]
    IN IF v1.isDragging THEN v1
       ELSE IF modifier = "shift" THEN v1
       ELSE IF modifier = "alt" /\ piece
       THEN [v1 EXCEPT !.isDragging = TRUE, !.isPanning = FALSE]
       ELSE [v1 EXCEPT !.isPanning = TRUE]

\* a pan end that leaves the edge panning as it is
panEndKeepsEdge(v) ==
    [v EXCEPT !.isDragging = FALSE, !.isPanning = FALSE]

onHammerPanMoveView(v, screenX, screenY) ==
    IF v.isDragging THEN updateEdgePanning(v, screenX, screenY)
    ELSE IF v.isPanning /\ ~v.isPinching
    THEN [ v EXCEPT !.camera.x = @ + (screenX - v.panStartScreenX),
                    !.camera.y = @ + (screenY - v.panStartScreenY),
                    !.panStartScreenX = screenX, !.panStartScreenY = screenY ]
    ELSE v

onHammerPanEndView(v) ==
    LET v1 == IF v.isDragging
              THEN [v EXCEPT !.isDragging = FALSE, !.edgePanning.active = FALSE]
              ELSE v
    IN [v1 EXCEPT !.isPanning = FALSE]

(***************************************************************************)
(* The engine with its own touch handlers (one finger).                    *)
(***************************************************************************)
clearHoldTimer(v) == [v EXCEPT !.holdTimer = FALSE]

handleTouchStart(v, screenX, screenY, piece) ==
    LET v1 == [v EXCEPT !.panStartScreenX = screenX, !.panStartScreenY = screenY]
    IN IF piece THEN [v1 EXCEPT !.holdTimer = TRUE]
       ELSE [v1 EXCEPT !.isPanning = TRUE]

\* the callback of the hold timer: activatePieceDrag
holdTimerFires(v) ==
    [v EXCEPT !.holdTimer = FALSE, !.isDragging = TRUE, !.isPanning = FALSE]

\* a touch move that lets a pending hold stand whatever the movement
touchMoveKeepsHold(v, screenX, screenY) ==
    IF v.isDragging THEN updateEdgePanning(v, screenX, screenY)
    ELSE IF v.isPanning
    THEN [ v EXCEPT !.camera.x = @ + (screenX - v.panStartScreenX),
                    !.camera.y = @ + (screenY - v.panStartScreenY),
                    !.panStartScreenX = screenX, !.panStartScreenY = screenY ]
    ELSE v

handleTouchMove(v, screenX, screenY) ==
    LET screenDx == IF screenX >= v.panStartScreenX THEN screenX - v.panStartScreenX
                    ELSE v.panStartScreenX - screenX
        screenDy == IF screenY >= v.panStartScreenY THEN screenY - v.panStartScreenY
                    ELSE v.panStartScreenY - screenY
        v1 == IF (screenDx > holdTolerance \/ screenDy > holdTolerance) /\ ~v.isDragging
              THEN [clearHoldTimer(v) EXCEPT !.isPanning = TRUE]
              ELSE v
    IN IF v1.isDragging THEN updateEdgePanning(v1, screenX, screenY)
       ELSE IF v1.isPanning
       THEN [ v1 EXCEPT !.camera.x = @ + (screenX - v1.panStartScreenX),
                        !.camera.y = @ + (screenY - v1.panStartScreenY),
                        !.panStartScreenX = screenX, !.panStartScreenY = screenY ]
       ELSE v1

handleTouchEnd(v) ==
    LET v1 == clearHoldTimer(v)
    IN IF v1.isDragging
       THEN [v1 EXCEPT !.isDragging = FALSE, !.edgePanning.active = FALSE]
       ELSE IF v1.isPinching THEN [v1 EXCEPT !.isPinching = FALSE]
       ELSE IF v1.isPanning THEN [v1 EXCEPT !.isPanning = FALSE]
       ELSE v1

(***************************************************************************)
(* The debounce of the save.  Time counts in milliseconds.  clock.now is   *)
(* the time, clock.due the time at which the timer of saveTimeout is due;  *)
(* clock.lastEnd is the time of the last piece-move-end (null before the   *)
(* first), clock.ends the number of them, clock.saves the number of saves  *)
(* issued since the burst of the last one began.                           *)
(***************************************************************************)
debounce == 250

noTimer == [now |-> 0, due |-> 0, lastEnd |-> null, ends |-> 0, saves |-> 0]

\* a piece-move-end that lets a pending timer run on
moveEndKeepsTimer(puzzleLoaded, pending, due, now) ==
    IF ~puzzleLoaded THEN [pending |-> pending, due |-> due]
    ELSE IF pending THEN [pending |-> TRUE, due |-> due]
    ELSE [pending |-> TRUE, due |-> now + debounce]

\* clearTimeout, then setTimeout(saveSharedPuzzle, 250): whether the timer is
\* pending after the call, and when it is due
handlePieceMoveEnd(puzzleLoaded, pending, due, now) ==
    IF ~puzzleLoaded THEN [pending |-> pending, due |-> due]
    ELSE [pending |-> TRUE, due |-> now + debounce]

\* the page script before it has loaded or cut anything, and the directory of
\* api.php before anything is saved
noPage ==
    [ currentImagePath |-> "square.jpg", puzzleLoaded |-> FALSE,
      currentShapeSeed |-> null, image |-> "none", pieces |-> <<>> ]
Images == {"square.jpg", "wide.jpg", "tall.jpg"}
noFile == [imagePath \in Images |-> [exists |-> FALSE]]

(***************************************************************************)
(* The state machine.                                                      *)
(***************************************************************************)
\* the piece each user works on when two users share the puzzle
Own == [u \in Users |-> IF u = "A" THEN 0 ELSE NumPieces - 1]

ZBound(e) == \A p \in PieceIds : e.pieces[p].zIndex <= MaxZ
InWorld(e) ==
    \A p \in PieceIds :
       e.pieces[p].isSelected =>
          << e.pieces[p].currentX - correctX(p),
             e.pieces[p].currentY - correctY(p) >> \in DropOffsets

Idle ==
    /\ gesture = [u \in Users |-> "none"]
    /\ last = "init"
    /\ saveTimeout = [u \in Users |-> FALSE]
    /\ request = [u \in Users |-> none]
    /\ unseen = [u \in Users |-> FALSE]
    /\ updates = 0
    /\ moved = [u \in Users |-> <<>>]
    /\ view = constructorView
    /\ event = noEvent
    /\ clock = noTimer
    /\ page = noPage
    /\ file = noFile
    /\ front = [u \in Users |-> 0]

\* one page, the engine on its own
Init ==
    /\ eng = [u \in Users |-> NewEngine]
    /\ server = none
    /\ Idle

\* input.startX/startY and input.currentX/currentY are written by the handlers
\* of a gesture before that gesture reads them, so their values are dropped
\* when the gesture is over
gestureOver(e) ==
    [ e EXCEPT !.input.startX = 0, !.input.startY = 0,
               !.input.currentX = 0, !.input.currentY = 0 ]

\* the zIndex values bringSelectedToFront has assigned on the way from
\* engine e0 to engine e: no other code writes the zIndex of a selected piece
assigned(e0, e) ==
    {e.pieces[p].zIndex : p \in {q \in PieceIds : /\ InSeq(q, e.selectedPieces)
                                                  /\ e.pieces[q].zIndex # e0.pieces[q].zIndex}}

Step1(u, op, e) ==
    /\ eng' = [eng EXCEPT ![u] = e]
    /\ last' = op
    /\ front' = [front EXCEPT ![u] =
                   CHOOSE m \in assigned(eng[u], e) \cup {@} :
                      \A z \in assigned(eng[u], e) \cup {@} : z <= m]

Press(u) ==
    /\ gesture[u] = "none"
    /\ \E x \in CoarseX, y \in CoarseY :
          LET e == onHammerPress(eng[u], x, y)
          IN ZBound(e) /\ Step1(u, "press", e)
    /\ gesture' = [gesture EXCEPT ![u] = "press"]
    /\ UNCHANGED <<saveTimeout, request, server, unseen, updates, moved, view, event, clock, page, file>>

\* a user who shares the puzzle holds the piece that user works on
PressOwn(u) ==
    /\ gesture[u] = "none"
    /\ Len(moved[u]) < MaxMoves
    /\ \E x \in CoarseX, y \in CoarseY :
          LET e == onHammerPress(eng[u], x, y)
          IN /\ getPieceAt(eng[u], x, y) = Own[u]
             /\ ZBound(e)
             /\ Step1(u, "press", e)
    /\ gesture' = [gesture EXCEPT ![u] = "press"]
    /\ UNCHANGED <<saveTimeout, request, server, unseen, updates, moved, view, event, clock, page, file>>

PressUp(u) ==
    /\ gesture[u] = "press"
    /\ Step1(u, "pressup", gestureOver(onHammerPressUp(eng[u])))
    /\ gesture' = [gesture EXCEPT ![u] = "none"]
    /\ UNCHANGED <<saveTimeout, request, server, unseen, updates, moved, view, event, clock, page, file>>

\* a pan that follows a hold starts where the hold was
PanStartHeld(u) ==
    /\ gesture[u] = "press"
    /\ eng[u].input.isDragging
    /\ Step1(u, "panstart", onHammerPanStart(eng[u], eng[u].input.startX,
                                             eng[u].input.startY, "none"))
    /\ gesture' = [gesture EXCEPT ![u] = "pan"]
    /\ UNCHANGED <<saveTimeout, request, server, unseen, updates, moved, view, event, clock, page, file>>

\* a pan without a hold; the camera pans explored start at the top left
PanStart(u) ==
    /\ gesture[u] = "none" \/ (gesture[u] = "press" /\ ~eng[u].input.isDragging)
    /\ ~eng[u].input.isLassoMode
    /\ \E x \in CoarseX, y \in CoarseY, m \in Modifiers :
          LET e == onHammerPanStart(eng[u], x, y, m)
          IN /\ ZBound(e)
             /\ e.input.isPanning => (x = Step /\ y = Step /\ m = "none")
             /\ Step1(u, "panstart", e)
    /\ gesture' = [gesture EXCEPT ![u] = "pan"]
    /\ UNCHANGED <<saveTimeout, request, server, unseen, updates, moved, view, event, clock, page, file>>

PanMoveDrag(u) ==
    /\ gesture[u] = "pan"
    /\ eng[u].input.isDragging
    /\ \E x \in PointerX, y \in PointerY :
          LET e == onHammerPanMove(eng[u], x, y)
          IN InWorld(e) /\ Step1(u, "panmove", e)
    /\ UNCHANGED <<gesture, saveTimeout, request, server, unseen, updates, moved, view, event, clock, page, file>>

\* a selection box and a camera pan are drawn in one move towards the
\* bottom right
PanMove(u) ==
    /\ gesture[u] = "pan"
    /\ ~eng[u].input.isDragging
    /\ ~eng[u].input.isDrawingLasso
    /\ \E x \in CoarseX, y \in CoarseY :
          /\ x > eng[u].input.startX /\ y > eng[u].input.startY
          /\ Step1(u, "panmove", onHammerPanMove(eng[u], x, y))
    /\ gesture' = [gesture EXCEPT ![u] = "moved"]
    /\ UNCHANGED <<saveTimeout, request, server, unseen, updates, moved, view, event, clock, page, file>>

\* what the release of engine e is going to do
released(e) ==
    IF e.input.isDragging /\ Len(e.selectedPieces) > 0
    THEN LET cand == finalCandidates(e, snapDistance)
         IN IF cand # <<>>
            THEN LET g == e.pieces[Head(cand)].groupId
                 IN IF hasGroup(e, g) /\ \A p \in PieceIds :
                                           InSeq(p, e.groups[g]) => e.pieces[p].isPlaced
                    THEN "final.again"
                    ELSE "final"
            ELSE IF DOMAIN checkSnapping(e).groups # DOMAIN e.groups
                 THEN "merge"
                 ELSE "drop"
    ELSE IF e.input.isSelecting THEN "box"
    ELSE IF e.input.isDrawingLasso THEN "lasso"
    ELSE "pan"

\* a pan ends after its move; a piece that was held can be let go where it is.
\* The callback of a drag is handlePieceMoveEnd, which (re)starts the
\* debounce timer of the save.  moved is kept for the pages that share a file.
PanEnded(u) ==
    /\ gesture[u] = "moved" \/ (gesture[u] = "pan" /\ eng[u].input.isDragging)
    /\ LET e == onHammerPanEnd(eng[u])
           wired == eng[u].input.isDragging /\ eng[u].onPieceMoveEnd
       IN /\ Step1(u, released(eng[u]), gestureOver(e))
          /\ saveTimeout' = IF wired THEN [saveTimeout EXCEPT ![u] = TRUE]
                            ELSE saveTimeout
          /\ moved' = IF wired /\ server # none
                      THEN [moved EXCEPT ![u] = Append(@, << e.pieces[Own[u]].currentX,
                                                             e.pieces[Own[u]].currentY >>)]
                      ELSE moved
    /\ gesture' = [gesture EXCEPT ![u] = "none"]
    /\ UNCHANGED <<request, server, unseen, updates, view, event>>

\* with time left out
PanEnd(u) == PanEnded(u) /\ UNCHANGED <<clock, page, file>>

Tap(u) ==
    /\ gesture[u] = "none"
    /\ \E x \in CoarseX, y \in CoarseY :
          Step1(u, "tap", onHammerTap(eng[u], x, y))
    /\ UNCHANGED <<gesture, saveTimeout, request, server, unseen, updates, moved, view, event, clock, page, file>>

Next ==
    \/ Press("A")
    \/ PressUp("A")
    \/ PanStartHeld("A")
    \/ PanStart("A")
    \/ PanMoveDrag("A")
    \/ PanMove("A")
    \/ PanEnd("A")
    \/ Tap("A")

Spec == Init /\ [][Next]_vars

(***************************************************************************)
(* The same page with the lasso tool.                                      *)
(***************************************************************************)
LassoButton(u) ==
    /\ gesture[u] = "none"
    /\ Step1(u, "lasso.button", lassoClick(eng[u]))
    /\ UNCHANGED <<gesture, saveTimeout, request, server, unseen, updates, moved, view, event, clock, page, file>>

LassoStart(u) ==
    /\ gesture[u] = "none"
    /\ eng[u].input.isLassoMode
    /\ \E x \in CornerX, y \in CornerY :
          Step1(u, "panstart", onHammerPanStart(eng[u], x, y, "none"))
    /\ gesture' = [gesture EXCEPT ![u] = "pan"]
    /\ UNCHANGED <<saveTimeout, request, server, unseen, updates, moved, view, event, clock, page, file>>

\* the path visits a point once
LassoMove(u) ==
    /\ gesture[u] \in {"pan", "moved"}
    /\ eng[u].input.isDrawingLasso
    /\ Len(eng[u].input.lassoPath) < MaxLasso
    /\ \E x \in CornerX, y \in CornerY :
          /\ ~InSeq([x |-> x, y |-> y], eng[u].input.lassoPath)
          /\ Step1(u, "panmove", onHammerPanMove(eng[u], x, y))
    /\ gesture' = [gesture EXCEPT ![u] = "moved"]
    /\ UNCHANGED <<saveTimeout, request, server, unseen, updates, moved, view, event, clock, page, file>>

NextLasso ==
    \/ Next
    \/ LassoButton("A")
    \/ LassoStart("A")
    \/ LassoMove("A")

SpecLasso == Init /\ [][NextLasso]_vars

(***************************************************************************)
(* One page that receives what other pages saved.                          *)
(***************************************************************************)
\* the page cut the image itself, or loaded a shared puzzle from the file
InitRemote ==
    /\ \/ eng = [u \in Users |-> init] /\ last = "init"
       \/ \E puzzleData \in Payloads :
             /\ eng = [u \in Users |->
                         restoreSharedPuzzle([constructor EXCEPT !.onPieceMoveEnd = TRUE],
                                             puzzleData)]
             /\ last = "restore"
    /\ gesture = [u \in Users |-> "none"]
    /\ saveTimeout = [u \in Users |-> FALSE]
    /\ request = [u \in Users |-> none]
    /\ unseen = [u \in Users |-> FALSE]
    /\ updates = 0
    /\ moved = [u \in Users |-> <<>>]
    /\ view = constructorView
    /\ event = noEvent
    /\ clock = noTimer
    /\ page = noPage
    /\ file = noFile
    /\ front = [u \in Users |-> 0]
    /\ server = none

\* the event stream hands a saved state to handleRemotePuzzleUpdate, at any
\* point of a gesture
RemoteUpdate(u) ==
    /\ updates < MaxUpdates
    /\ \E remotePuzzle \in Payloads :
          Step1(u, "remote", handleRemotePuzzleUpdate(eng[u], remotePuzzle))
    /\ updates' = updates + 1
    /\ UNCHANGED <<gesture, saveTimeout, request, server, unseen, moved, view, event, clock, page, file>>

NextRemote ==
    \/ Press("A")
    \/ PressUp("A")
    \/ PanStartHeld("A")
    \/ PanMoveDrag("A")
    \/ PanEnd("A")
    \/ RemoteUpdate("A")

SpecRemote == InitRemote /\ [][NextRemote]_vars

(***************************************************************************)
(* Two pages on one shared puzzle, and the file of api.php between them.   *)
(***************************************************************************)
InitShared ==
    /\ eng = [u \in Users |-> init]
    /\ server = getPuzzleState(init)
    /\ Idle

\* the debounce timer fires: saveSharedPuzzle posts getPuzzleState()
SaveTimerFires(u) ==
    /\ saveTimeout[u]
    /\ request[u] = none
    /\ saveTimeout' = [saveTimeout EXCEPT ![u] = FALSE]
    /\ request' = [request EXCEPT ![u] = getPuzzleState(eng[u])]
    /\ last' = "post"
    /\ UNCHANGED <<eng, gesture, server, unseen, updates, moved, view, event>>

\* with time left out
SaveTimer(u) == SaveTimerFires(u) /\ UNCHANGED <<clock, page, file, front>>

\* api.php saveSharedPuzzle: the posted pieces replace the pieces of the file
saveSharedPuzzle(u) ==
    /\ request[u] # none
    /\ server' = request[u]
    /\ request' = [request EXCEPT ![u] = none]
    /\ unseen' = [v \in Users |-> TRUE]
    /\ last' = "saved"
    /\ UNCHANGED <<eng, gesture, saveTimeout, updates, moved, view, event, clock, page, file, front>>

\* api.php subscribeToUpdates sees the file changed and sends it; the page
\* passes it to handleRemotePuzzleUpdate
subscribeToUpdates(u) ==
    /\ unseen[u]
    /\ updates < MaxUpdates
    /\ Step1(u, "remote", handleRemotePuzzleUpdate(eng[u], server))
    /\ unseen' = [unseen EXCEPT ![u] = FALSE]
    /\ updates' = updates + 1
    /\ UNCHANGED <<gesture, saveTimeout, request, server, moved, view, event, clock, page, file>>

NextShared ==
    \E u \in Users :
       \/ PressOwn(u)
       \/ PressUp(u)
       \/ PanStartHeld(u)
       \/ PanMoveDrag(u)
       \/ PanEnd(u)
       \/ SaveTimer(u)
       \/ saveSharedPuzzle(u)
       \/ subscribeToUpdates(u)

SpecShared == InitShared /\ [][NextShared]_vars

(***************************************************************************)
(* Properties of the engine under local gestures.                          *)
(***************************************************************************)
members(e, g) == {p \in PieceIds : InSeq(p, e.groups[g])}
groupsOf(e, p) == {g \in DOMAIN e.groups : InSeq(p, e.groups[g])}
\* the release of a drag that has a selection
Releasing(u) ==
    /\ gesture[u] = "pan" /\ gesture'[u] = "none"
    /\ eng[u].input.isDragging
    /\ Len(eng[u].selectedPieces) > 0
nearSolved(e, p) ==
    (correctX(p) - e.pieces[p].currentX) * (correctX(p) - e.pieces[p].currentX)
      + (correctY(p) - e.pieces[p].currentY) * (correctY(p) - e.pieces[p].currentY)
      < snapDistance * snapDistance

\* C1: after any sequence of drags, releases and merges, every piece id is in
\* the member set of exactly one group, and the piece's groupId names it.
C1_OneGroupPerPiece ==
    \A p \in PieceIds :
       /\ Cardinality(groupsOf(eng["A"], p)) = 1
       /\ groupsOf(eng["A"], p) = {eng["A"].pieces[p].groupId}
\* two merges have happened: a group of three
C1_Witness ==
    /\ last = "merge"
    /\ \E g \in DOMAIN eng["A"].groups : Len(eng["A"].groups[g]) >= 3

\* C3: a locked piece is never put in the selection and never changes its
\* position, whatever the local gesture.
C3_LockedUntouched ==
    [][ \A p \in PieceIds :
           eng["A"].pieces[p].isLocked =>
              /\ ~eng["A"].pieces[p].isSelected'
              /\ ~InSeq(p, eng["A"].selectedPieces')
              /\ eng["A"].pieces[p].currentX' = eng["A"].pieces[p].currentX
              /\ eng["A"].pieces[p].currentY' = eng["A"].pieces[p].currentY ]_vars
\* a locked piece lies off its solved position
C3_Displaced ==
    \E p \in PieceIds :
       /\ eng["A"].pieces[p].isLocked
       /\ eng["A"].pieces[p].currentX # correctX(p)

\* C4: on a drag release with a selected piece within the snap distance of
\* its solved position, every piece of the group of the first such piece is
\* put exactly on its solved coordinates and locked, and no group is merged
\* or moved next to a neighbour in that release.
C4_FinalSnap ==
    [][ (Releasing("A") /\ \E p \in PieceIds :
                             InSeq(p, eng["A"].selectedPieces) /\ nearSolved(eng["A"], p))
        => LET e == eng["A"]
               near == SelectSeq(e.selectedPieces, LAMBDA p : nearSolved(e, p))
               g == e.pieces[Head(near)].groupId
           IN /\ \A p \in members(e, g) :
                    /\ eng["A"].pieces[p].currentX' = correctX(p)
                    /\ eng["A"].pieces[p].currentY' = correctY(p)
                    /\ eng["A"].pieces[p].isLocked'
                    /\ eng["A"].pieces[p].isPlaced'
              /\ eng["A"].groups' = e.groups
              /\ \A p \in PieceIds \ members(e, g) :
                    /\ eng["A"].pieces[p].groupId' = e.pieces[p].groupId
                    /\ eng["A"].pieces[p].currentX' = e.pieces[p].currentX
                    /\ eng["A"].pieces[p].currentY' = e.pieces[p].currentY ]_vars
\* a group of two has just been snapped to its solved position
C4_Witness ==
    /\ last = "final"
    /\ \E g \in DOMAIN eng["A"].groups :
          /\ Len(eng["A"].groups[g]) >= 2
          /\ \A p \in members(eng["A"], g) :
                eng["A"].pieces[p].isLocked /\ eng["A"].pieces[p].currentX = correctX(p)

\* C5: while a selection is dragged, the members of a group all move by the
\* same amount.
C5_GroupMovesAsOne ==
    [][ (gesture["A"] = "pan" /\ gesture'["A"] = "pan" /\ eng["A"].input.isDragging)
        => \A p, q \in PieceIds :
              eng["A"].pieces[p].groupId = eng["A"].pieces[q].groupId
              => /\ eng["A"].pieces[p].currentX' - eng["A"].pieces[p].currentX
                      = eng["A"].pieces[q].currentX' - eng["A"].pieces[q].currentX
                 /\ eng["A"].pieces[p].currentY' - eng["A"].pieces[p].currentY
                      = eng["A"].pieces[q].currentY' - eng["A"].pieces[q].currentY ]_vars
\* two pieces of one group are no longer where the merge put them, relative
\* to each other
C5_Drifted ==
    \E p, q \in PieceIds :
       /\ eng["A"].pieces[p].groupId = eng["A"].pieces[q].groupId
       /\ ~eng["A"].pieces[p].isLocked /\ ~eng["A"].pieces[q].isLocked
       /\ eng["A"].pieces[p].currentX - eng["A"].pieces[q].currentX
             # correctX(p) - correctX(q)

C7_CountedOnce ==
    eng["A"].placedPieces = Cardinality({p \in PieceIds : eng["A"].pieces[p].isPlaced})
\* a group that was placed before has been snapped to its solved position
\* again
C7_Witness ==
    /\ last = "final.again"
    /\ eng["A"].placedPieces >= 1

(***************************************************************************)
(* Properties of the merge of remote state and of the shared file.         *)
(***************************************************************************)
\* the member lists that hold piece p
memberships(e, p) == {Range(e.groups[g]) : g \in groupsOf(e, p)}
Applied(u) == updates' # updates /\ eng'[u] # eng[u]

\* C2: a remote update leaves every locally selected piece as it was: same
\* position, flags, z-index and group membership.
C2_SelectedUntouched ==
    [][ \A u \in Users :
          Applied(u) =>
             \A p \in PieceIds :
                InSeq(p, eng[u].selectedPieces)
                => /\ eng[u].pieces[p]' = eng[u].pieces[p]
                   /\ memberships(eng[u], p)' = memberships(eng[u], p) ]_vars
\* after a remote update the user holds two pieces that are no longer in
\* one group
C2_Witness ==
    /\ last = "remote"
    /\ \E u \in Users : \E p, q \in PieceIds :
          /\ InSeq(p, eng[u].selectedPieces)
          /\ InSeq(q, eng[u].selectedPieces)
          /\ eng[u].pieces[p].groupId # eng[u].pieces[q].groupId

Quiet ==
    \A u \in Users :
       ~saveTimeout[u] /\ request[u] = none /\ gesture[u] = "none"
\* nobody has joined the piece of one user to the piece of the other
Unrelated ==
    /\ \A u \in Users :
          eng[u].pieces[Own["A"]].groupId # eng[u].pieces[Own["B"]].groupId
    /\ server.pieces[Own["A"] + 1].groupId # server.pieces[Own["B"] + 1].groupId

\* C8: once the saves of both users are processed, the file holds the piece
\* of each user where that user put it.
C8_BothMovesKept ==
    (Quiet /\ Unrelated)
    => \A u \in Users :
          moved[u] # <<>>
          => moved[u][Len(moved[u])] = << server.pieces[Own[u] + 1].currentX,
                                          server.pieces[Own[u] + 1].currentY >>
\* both users have moved their piece and every save is processed
C8_Witness ==
    /\ Quiet /\ Unrelated
    /\ \A u \in Users : moved[u] # <<>>
    /\ \E u \in Users :
          moved[u][Len(moved[u])] # << server.pieces[Own[u] + 1].currentX,
                                       server.pieces[Own[u] + 1].currentY >>

\* C9: after saved or remote state is loaded, malformed or not, every piece
\* is in exactly one group, the one its groupId names, and the group map
\* holds no id that is not a piece.
C9_RebuiltConsistent ==
    last \in {"restore", "remote"}
    => /\ \A p \in PieceIds : groupsOf(eng["A"], p) = {eng["A"].pieces[p].groupId}
       /\ \A g \in DOMAIN eng["A"].groups : Range(eng["A"].groups[g]) \subseteq PieceIds
\* the group map holds an id that is no piece
C9_Witness ==
    /\ last \in {"restore", "remote"}
    /\ \E g \in DOMAIN eng["A"].groups : NumPieces \in Range(eng["A"].groups[g])

\* C10: a piece that is locked stays locked, under local gestures and
\* remote updates.
C10_LockedForever ==
    [][ \A u \in Users : \A p \in PieceIds :
           eng[u].pieces[p].isLocked => eng[u].pieces[p].isLocked' ]_vars
\* a piece lies on its solved position, counted as placed by the file, and
\* is not locked
C10_Witness ==
    /\ last = "remote"
    /\ \E u \in Users : \E p \in PieceIds :
          /\ ~eng[u].pieces[p].isLocked
          /\ p = Own[u]
          /\ moved[u] = << <<correctX(p), correctY(p)>> >>

\* C11: a piece whose isPlaced flag is true keeps it, under local gestures
\* and remote updates (the pieces array is never replaced here: no reset,
\* no new cut).
C11_PlacedForever ==
    [][ \A u \in Users : \A p \in PieceIds :
           eng[u].pieces[p].isPlaced => eng[u].pieces[p].isPlaced' ]_vars
\* the piece a user dropped on its solved position is back at its scattered
\* position and no longer placed
C11_Witness ==
    /\ last = "remote"
    /\ \E u \in Users :
          /\ moved[u] = << <<correctX(Own[u]), correctY(Own[u])>> >>
          /\ ~eng[u].pieces[Own[u]].isPlaced
          /\ eng[u].pieces[Own[u]].currentX = scatterX(shuffle[Own[u]])

(***************************************************************************)
(* Properties of the start and the end of a drag.                          *)
(***************************************************************************)
\* the handler that ran switched the drag on
Activated(u) == ~eng[u].input.isDragging /\ eng[u].input.isDragging'
\* the piece under the pointer when it did (the handler stores the pointer
\* position in input.startX, input.startY)
touched(u) == getPieceAt(eng[u], eng[u].input.startX', eng[u].input.startY')

\* C12: when a drag is activated on a piece, the selection holds every
\* member of the group of that piece, also when the piece was selected
\* before by a box or a lasso.
C12_WholeGroupSelected ==
    [][ Activated("A")
        => \A q \in PieceIds :
              eng["A"].pieces[q].groupId = eng["A"].pieces[touched("A")].groupId
              => /\ InSeq(q, eng["A"].selectedPieces')
                 /\ eng["A"].pieces[q].isSelected' ]_vars
\* a piece is held while a member of its group is not selected
C12_Witness ==
    /\ last = "press"
    /\ eng["A"].input.isDragging
    /\ eng["A"].input.heldPiece # null
    /\ \E q \in PieceIds :
          /\ eng["A"].pieces[q].groupId
                = eng["A"].pieces[eng["A"].input.heldPiece].groupId
          /\ ~eng["A"].pieces[q].isSelected

\* C13: groups never split: two pieces that are in one group are in one
\* group in every later state of the session.
C13_NeverSplit ==
    [][ \A u \in Users : \A p, q \in PieceIds :
           eng[u].pieces[p].groupId = eng[u].pieces[q].groupId
           => eng[u].pieces[p].groupId' = eng[u].pieces[q].groupId' ]_vars
\* user A let piece 0 go where it lay, next to piece 2, which joined the
\* two; after a remote update they still lie joined and are two groups
C13_Witness ==
    /\ last = "remote"
    /\ moved["A"] = << <<scatterX(shuffle[0]), scatterY(shuffle[0])>> >>
    /\ eng["A"].pieces[0].groupId # eng["A"].pieces[Cols].groupId
    /\ eng["A"].pieces[Cols].currentX - eng["A"].pieces[0].currentX = 0
    /\ eng["A"].pieces[Cols].currentY - eng["A"].pieces[0].currentY = pieceHeight

(***************************************************************************)
(* Properties of the adjacency snap.                                       *)
(***************************************************************************)
\* where piece should be for neighbor's live position, minus where it is
expectedDx(e, piece, neighbor) ==
    e.pieces[neighbor].currentX
      + (col(piece) - col(neighbor)) * (width - tabPadding * 2)
      - e.pieces[piece].currentX
expectedDy(e, piece, neighbor) ==
    e.pieces[neighbor].currentY
      + (row(piece) - row(neighbor)) * (height - tabPadding * 2)
      - e.pieces[piece].currentY
\* neighbor is a grid neighbour of piece in another group, and piece lies
\* within the snap distance of its place next to it
matches(e, piece, neighbor) ==
    /\ isNeighbor(e, piece, neighbor)
    /\ within(expectedDx(e, piece, neighbor), expectedDy(e, piece, neighbor),
              snapDistance)
\* a release that goes on to the adjacency snap: no selected piece is near
\* its solved position
ReleasingLoose(u) ==
    /\ Releasing(u)
    /\ finalCandidates(eng[u], snapDistance) = <<>>

\* C14: a release merges the dragged group with the group of every
\* neighbour that a selected piece matches when the release starts, however
\* many such groups there are.
C14_EveryMatchMerged ==
    [][ ReleasingLoose("A")
        => \A p, n \in PieceIds :
              (InSeq(p, eng["A"].selectedPieces) /\ matches(eng["A"], p, n))
              => eng["A"].pieces[p].groupId' = eng["A"].pieces[n].groupId' ]_vars
\* a release has merged the dragged piece with one neighbour and moved it
\* out of reach of another one, which stays a group of its own
C14_Witness ==
    /\ last = "merge"
    /\ \E p, n \in PieceIds :
          /\ InSeq(p, eng["A"].selectedPieces)
          /\ Len(eng["A"].groups[eng["A"].pieces[p].groupId]) = 2
          /\ isNeighbor(eng["A"], p, n)
          /\ expectedDx(eng["A"], p, n) = -2 * Step
          /\ expectedDy(eng["A"], p, n) = 0

\* one pass of the body of neighbors.forEach: the engine before the pass,
\* the piece that is checked and the neighbour it is checked against
RECURSIVE neighborTrail(_, _, _)
neighborTrail(e, piece, neighbors) ==
    IF neighbors = <<>> THEN <<>>
    ELSE << [before |-> e, piece |-> piece, neighbor |-> Head(neighbors)] >>
         \o neighborTrail(snapToNeighbors(e, piece, <<Head(neighbors)>>, snapDistance),
                          piece, Tail(neighbors))

\* the passes of one release, in the order the adjacency loop makes them
RECURSIVE releaseTrail(_, _)
releaseTrail(e, sel) ==
    IF sel = <<>> THEN <<>>
    ELSE neighborTrail(e, Head(sel),
                       SetToSeq({p \in PieceIds : isNeighbor(e, Head(sel), p)}))
         \o releaseTrail(checkAdjacentSnapping(e, Head(sel), snapDistance), Tail(sel))

\* the engine after pass t, and the groups that pass removed
stepOf(t) == snapToNeighbors(t.before, t.piece, <<t.neighbor>>, snapDistance)
gone(t) == (DOMAIN t.before.groups) \ (DOMAIN stepOf(t).groups)

\* C15: a release merges two groups only if they were different groups, one
\* holding a selected piece and the other a grid neighbour of it (one step
\* in one axis), with the selected piece, where it lies at that moment,
\* within the snap distance of its place next to the neighbour.
C15_MergeOnlyOnMatch ==
    [][ ReleasingLoose("A")
        => LET e == eng["A"]
               trail == releaseTrail(e, e.selectedPieces)
           IN /\ (DOMAIN e.groups) \ (DOMAIN eng["A"].groups')
                    = UNION {gone(trail[i]) : i \in 1 .. Len(trail)}
              /\ \A i \in 1 .. Len(trail) :
                    LET t == trail[i]
                        b == t.before
                        a == stepOf(t)
                        dRow == row(t.piece) - row(t.neighbor)
                        dCol == col(t.piece) - col(t.neighbor)
                        dx == b.pieces[t.neighbor].currentX + dCol * pieceWidth
                                - b.pieces[t.piece].currentX
                        dy == b.pieces[t.neighbor].currentY + dRow * pieceHeight
                                - b.pieces[t.piece].currentY
                    IN IF gone(t) = {}
                       THEN a.groups = b.groups
                       ELSE /\ InSeq(t.piece, e.selectedPieces)
                            /\ b.pieces[t.piece].groupId # b.pieces[t.neighbor].groupId
                            /\ gone(t) = {b.pieces[t.neighbor].groupId}
                            /\ dRow * dRow + dCol * dCol = 1
                            /\ dx * dx + dy * dy < snapDistance * snapDistance
                            /\ \A g \in DOMAIN a.groups :
                                  Range(a.groups[g]) =
                                     IF g = b.pieces[t.piece].groupId
                                     THEN Range(b.groups[g])
                                          \cup Range(b.groups[b.pieces[t.neighbor].groupId])
                                     ELSE Range(b.groups[g]) ]_vars
\* the second drag of the session has merged two groups into the group of
\* the dragged piece in one release: that piece was raised to the front
\* once, as the second piece ever raised, and its group lists a piece that
\* was never raised before the piece that was raised first
C15_Witness ==
    /\ last = "merge"
    /\ maxZ(eng["A"]) = NumPieces + 1
    /\ \E g \in DOMAIN eng["A"].groups :
          /\ Len(eng["A"].groups[g]) >= 3
          /\ eng["A"].groups[g][1] = g
          /\ eng["A"].pieces[eng["A"].groups[g][1]].zIndex = NumPieces + 1
          /\ eng["A"].pieces[eng["A"].groups[g][2]].zIndex < NumPieces
          /\ eng["A"].pieces[eng["A"].groups[g][3]].zIndex = NumPieces

\* C17: every release that ends a piece drag runs the snap algorithm on the
\* selection and leaves the engine idle, however the drag was started and
\* ended (hold and pan, hold and release without moving, alt-drag).
C17_ReleaseSnaps ==
    [][ (eng["A"].input.isDragging /\ ~eng["A"].input.isDragging'
         /\ Len(eng["A"].selectedPieces) > 0)
        => /\ eng["A"].pieces' = checkSnapping(eng["A"]).pieces
           /\ eng["A"].groups' = checkSnapping(eng["A"]).groups
           /\ eng["A"].selectedPieces' = checkSnapping(eng["A"]).selectedPieces ]_vars
\* a piece was held and let go without a move while it lay where the snap
\* algorithm would have joined it to a neighbour, and it is not joined
C17_Witness ==
    /\ last = "pressup"
    /\ ~eng["A"].input.isDragging
    /\ Len(eng["A"].selectedPieces) > 0
    /\ DOMAIN checkSnapping(eng["A"]).groups # DOMAIN eng["A"].groups


(***************************************************************************)
(* The camera's part of the engine under the gestures of one pointer and   *)
(* the frames of the render loop.  gesture["A"] is the phase of the        *)
(* gesture; event keeps the pointer's last position.                       *)
(***************************************************************************)
\* how far, in pixels, the camera is followed from where setPieces put it
MaxCamera == 10
ScreenXs == {30, 400, 410, 770}
ScreenYs == {300, 570}
Targets == {"piece", "reference", "none"}

centred == setPiecesView(constructorView).camera

Followed(v) ==
    /\ v.camera.x - centred.x \in -MaxCamera..MaxCamera
    /\ v.camera.y - centred.y \in -MaxCamera..MaxCamera

phase(ph) == gesture' = [gesture EXCEPT !["A"] = ph]

others == <<eng, last, saveTimeout, request, server, unseen, updates, moved, clock, page, file, front>>

SetPieces ==
    /\ ~view.hasPieces
    /\ view' = setPiecesView(view)
    /\ event' = [event EXCEPT !.type = "setPieces"]
    /\ UNCHANGED <<gesture, others>>

ViewPress ==
    /\ view.hasPieces /\ gesture["A"] = "none"
    /\ \E x \in ScreenXs, y \in ScreenYs, target \in Targets :
         /\ view' = onHammerPressView(view, target # "none")
         /\ event' = [event EXCEPT !.type = "press", !.x = x, !.y = y]
    /\ phase("pressed")
    /\ UNCHANGED others

ViewPressUp ==
    /\ gesture["A"] = "pressed"
    /\ view' = onHammerPressUpView(view)
    /\ event' = [event EXCEPT !.type = "pressup"]
    /\ phase("none")
    /\ UNCHANGED others

ViewPanStart ==
    /\ view.hasPieces /\ gesture["A"] \in {"none", "pressed"}
    /\ \E x \in ScreenXs, y \in ScreenYs, modifier \in {"none", "shift", "alt"},
          piece \in BOOLEAN :
         /\ gesture["A"] = "pressed" => x = event.x /\ y = event.y
         /\ view' = onHammerPanStartView(view, x, y, modifier, piece)
         /\ event' = [event EXCEPT !.type = "panstart", !.x = x, !.y = y]
    /\ phase("panning")
    /\ UNCHANGED others

ViewPanMove ==
    /\ gesture["A"] = "panning"
    /\ \E x \in ScreenXs, y \in ScreenYs :
         /\ view' = onHammerPanMoveView(view, x, y)
         /\ event' = [event EXCEPT !.type = "panmove", !.x = x, !.y = y]
    /\ Followed(view')
    /\ UNCHANGED <<gesture, others>>

ViewPanEnd ==
    /\ gesture["A"] = "panning"
    /\ view' = onHammerPanEndView(view)
    /\ event' = [event EXCEPT !.type = "panend"]
    /\ phase("none")
    /\ UNCHANGED others

\* render: applyEdgePanning comes first
Frame ==
    /\ view' = applyEdgePanning(view)
    /\ Followed(view')
    /\ event' = [event EXCEPT !.type = "frame"]
    /\ UNCHANGED <<gesture, others>>

NextEdge ==
    \/ SetPieces
    \/ ViewPress
    \/ ViewPressUp
    \/ ViewPanStart
    \/ ViewPanMove
    \/ ViewPanEnd
    \/ Frame

SpecEdge == Init /\ [][NextEdge]_vars

inEdgeBand(screenX, screenY) ==
    \/ screenX < edgePanThreshold \/ screenX > canvasWidth - edgePanThreshold
    \/ screenY < edgePanThreshold \/ screenY > canvasHeight - edgePanThreshold

\* C20: a frame of the render loop moves the camera only while a drag is in
\* progress and the pointer's last position is inside the edge band; once the
\* drag has ended, by press up or by pan end or pan cancel, or the pointer has
\* moved back to the interior, edge panning is off and the frames that follow
\* leave the camera alone
C20_ScrollOnlyInDrag ==
    [][ /\ (event'.type = "frame" /\ view'.camera # view.camera)
            => (view.isDragging /\ inEdgeBand(event.x, event.y))
        /\ (~view'.isDragging \/ ~inEdgeBand(event'.x, event'.y))
            => ~view'.edgePanning.active
      ]_vars

\* a drag has scrolled the camera at the left edge and has ended there; the
\* frame after it has left the camera where it was
C20_Witness ==
    /\ event.type = "frame" /\ gesture["A"] = "none"
    /\ ~view.isDragging /\ inEdgeBand(event.x, event.y)
    /\ view.edgePanning.velocityX = edgePanSpeed
    /\ view.camera.x = centred.x + 2 * edgePanSpeed
    /\ ~view.isPanning

(***************************************************************************)
(* The engine with its own touch handlers under the touches of one finger. *)
(* gesture["A"] tells what the finger has done since it came down on a     *)
(* piece: "down" (not moved), "nudged" (moved, never more than the hold    *)
(* tolerance from where it came down), "early" (moved further than that    *)
(* while the hold timer was pending), "held" and "heldNudged" (the timer   *)
(* has fired); "pan" is a touch that came down on no piece.                *)
(***************************************************************************)
\* how far, in pixels, a pan is followed from where setPieces put the camera
MaxPan == 30
TouchXs == {400, 410, 425}
TouchYs == {300, 315}

FollowedPan(v) ==
    /\ v.camera.x - centred.x \in -MaxPan..MaxPan
    /\ v.camera.y - centred.y \in -MaxPan..MaxPan

Abs(n) == IF n < 0 THEN -n ELSE n

beyondTolerance(x, y) ==
    Abs(x - event.startX) > holdTolerance \/ Abs(y - event.startY) > holdTolerance

TouchStart ==
    /\ view.hasPieces /\ gesture["A"] = "none"
    /\ \E x \in TouchXs, y \in TouchYs, piece \in BOOLEAN :
         /\ view' = handleTouchStart(view, x, y, piece)
         /\ event' = [event EXCEPT !.type = "touchstart", !.x = x, !.y = y,
                                   !.startX = x, !.startY = y]
         /\ phase(IF piece THEN "down" ELSE "pan")
    /\ UNCHANGED others

\* the hold delay has elapsed with the timer still set
HoldTimer ==
    /\ view.holdTimer
    /\ view' = holdTimerFires(view)
    /\ event' = [event EXCEPT !.type = "holdTimer"]
    /\ phase(IF gesture["A"] = "nudged" THEN "heldNudged" ELSE "held")
    /\ UNCHANGED others

TouchMove ==
    /\ gesture["A"] # "none"
    /\ \E x \in TouchXs, y \in TouchYs :
         /\ <<x, y>> # <<event.x, event.y>>
         /\ view' = handleTouchMove(view, x, y)
         /\ event' = [event EXCEPT !.type = "touchmove", !.x = x, !.y = y]
         /\ phase(IF gesture["A"] \in {"down", "nudged"}
                  THEN IF beyondTolerance(x, y) THEN "early" ELSE "nudged"
                  ELSE gesture["A"])
    /\ FollowedPan(view')
    /\ UNCHANGED others

TouchEnd ==
    /\ gesture["A"] # "none"
    /\ view' = handleTouchEnd(view)
    /\ event' = [event EXCEPT !.type = "touchend"]
    /\ phase("none")
    /\ UNCHANGED others

NextTouch ==
    \/ SetPieces
    \/ TouchStart
    \/ HoldTimer
    \/ TouchMove
    \/ TouchEnd

SpecTouch == Init /\ [][NextTouch]_vars

\* C16, as it is written: once the finger has moved with the hold timer
\* pending, however little, the timer is cleared, no drag has begun and the
\* gesture is a pan
C16_AnyMoveCancelsHold ==
    [][ gesture'["A"] \in {"nudged", "early", "heldNudged"}
          => (~view'.holdTimer /\ ~view'.isDragging /\ view'.isPanning) ]_vars

\* C16, amended: once the finger has moved more than holdTolerance pixels from
\* where it came down, on either axis, with the hold timer pending, the timer is
\* cleared and does not fire, no drag begins for the rest of the gesture, the
\* gesture is a pan, and the move that went beyond the tolerance has moved the
\* camera by the whole way from where the finger came down, each later move by
\* its own way
C16_FarMoveCancelsHold ==
    [][ gesture'["A"] = "early"
          => /\ ~view'.holdTimer /\ ~view'.isDragging /\ view'.isPanning
             /\ event'.type # "holdTimer"
             /\ LET fromX == IF gesture["A"] = "early" THEN event.x ELSE event.startX
                    fromY == IF gesture["A"] = "early" THEN event.y ELSE event.startY
                IN /\ view'.camera.x - view.camera.x = event'.x - fromX
                   /\ view'.camera.y - view.camera.y = event'.y - fromY
      ]_vars

\* the finger came down on a piece and has moved 25 pixels to the right with
\* the hold timer pending: the timer is cleared and the camera has moved with it
C16_Witness ==
    /\ gesture["A"] = "early" /\ event.type = "touchmove"
    /\ event.startX = 400 /\ event.x = 425
    /\ ~view.holdTimer /\ ~view.isDragging /\ view.isPanning
    /\ view.camera.x = centred.x + 25

(***************************************************************************)
(* The camera under wheel and pinch, view resets and loads.                *)
(***************************************************************************)
\* how many wheel events and pinch moves a behaviour has
MaxZoom == 3
PinchCentres == {<<400, 300>>, <<410, 290>>}
\* the scale of a pinch event: 0.5x, 1x, 2x
PinchScales == {ScaleOne \div 2, ScaleOne, 2 * ScaleOne}
\* saved states: one as getPuzzleState writes them, the others with a camera
\* that no engine has produced
SavedStates ==
    { [hasCamera |-> TRUE, camera |-> [x |-> 322, y |-> 222, scale |-> ScaleOne]],
      [hasCamera |-> TRUE, camera |-> [x |-> 0, y |-> 0, scale |-> 10 * ScaleOne]],
      [hasCamera |-> TRUE, camera |-> [x |-> -2000, y |-> 1500, scale |-> ScaleOne \div 20]],
      [hasCamera |-> FALSE, camera |-> [x |-> 0, y |-> 0, scale |-> ScaleOne]] }

Wheel ==
    /\ event.n < MaxZoom
    /\ \E c \in PinchCentres, deltaY \in {-100, 100} :
         /\ view' = handleWheel(view, c[1], c[2], deltaY)
         /\ event' = [event EXCEPT !.type = "wheel", !.x = c[1], !.y = c[2],
                                   !.n = @ + 1]
    /\ UNCHANGED <<gesture, others>>

PinchStart ==
    /\ gesture["A"] = "none"
    /\ \E c \in PinchCentres :
         /\ view' = onHammerPinchStart(view, c[1], c[2])
         /\ event' = [event EXCEPT !.type = "pinchstart", !.x = c[1], !.y = c[2],
                                   !.startX = c[1], !.startY = c[2],
                                   !.scale = ScaleOne]
    /\ phase("pinching")
    /\ UNCHANGED others

PinchMove ==
    /\ gesture["A"] = "pinching" /\ event.n < MaxZoom
    /\ \E c \in PinchCentres, scale \in PinchScales :
         /\ view' = onHammerPinchMove(view, c[1], c[2], scale)
         /\ event' = [event EXCEPT !.type = "pinchmove", !.x = c[1], !.y = c[2],
                                   !.scale = scale, !.n = @ + 1]
    /\ UNCHANGED <<gesture, others>>

PinchEnd ==
    /\ gesture["A"] = "pinching"
    /\ \E given \in BOOLEAN :
         view' = onHammerPinchEnd(view, [given |-> given, x |-> event.x, y |-> event.y])
    /\ event' = [event EXCEPT !.type = "pinchend"]
    /\ phase("none")
    /\ UNCHANGED others

ResetView ==
    /\ gesture["A"] = "none"
    /\ view' = resetView(view)
    /\ event' = [event EXCEPT !.type = "resetView"]
    /\ UNCHANGED <<gesture, others>>

\* the page is loaded from a saved state
Restore ==
    /\ gesture["A"] = "none" /\ event.type # "restore"
    /\ \E puzzleData \in SavedStates : view' = restoreView(constructorView, puzzleData)
    /\ event' = [event EXCEPT !.type = "restore"]
    /\ UNCHANGED <<gesture, others>>

NextZoom ==
    \/ SetPieces
    \/ Wheel
    \/ PinchStart
    \/ PinchMove
    \/ PinchEnd
    \/ ResetView
    \/ Restore

SpecZoom == Init /\ [][NextZoom]_vars

\* one screen pixel, in the units of world coordinates, at the camera's scale
onePixel(v) == (100 * ScaleOne) \div v.camera.scale + 1

\* the camera a pinch move gives when the camera of the frame before is put
\* back to the one captured at the start of the pinch
fromStart(v, screenX, screenY, scale) ==
    onHammerPinchMove(
        [v EXCEPT !.camera = [ x |-> v.pinchStartCamX, y |-> v.pinchStartCamY,
                               scale |-> v.pinchStartScale ]],
        screenX, screenY, scale).camera

RestoreSaved ==
    /\ gesture["A"] = "none" /\ event.type # "restoreSaved"
    /\ \E puzzleData \in SavedStates :
         view' = restoreSavedCamera(constructorView, puzzleData)
    /\ event' = [event EXCEPT !.type = "restoreSaved"]
    /\ UNCHANGED <<gesture, others>>

NextLoad ==
    \/ SetPieces
    \/ Wheel
    \/ PinchStart
    \/ PinchMove
    \/ PinchEnd
    \/ ResetView
    \/ RestoreSaved

SpecLoad == Init /\ [][NextLoad]_vars

\* C19: camera.scale lies within [0.1, 5] in every reachable state, after
\* wheel and pinch events, view resets and loads of saved state
C19_ScaleInRange == view.camera.scale \in scaleMin..scaleMax

\* a saved state with a camera scale of 10 has been loaded, and the camera has
\* that scale
C19_Witness ==
    /\ event.type = "restoreSaved"
    /\ view.hasPieces
    /\ view.camera.scale = 10 * ScaleOne

(***************************************************************************)
(* One page with time: the drags of its user, the timer of the save, and   *)
(* the file that takes the saves.  A timer that is due fires before time   *)
(* goes on and before the page handles another release.                    *)
(***************************************************************************)
\* the releases of a behaviour, and the time it is followed for
MaxEnds == 3
MaxTime == 750
Ticks == {50, 100, 250}

timerDue(u) == saveTimeout[u] /\ clock.now >= clock.due

Tick ==
    /\ \E dt \in Ticks :
         /\ clock.now + dt <= MaxTime
         /\ saveTimeout["A"] => clock.now + dt <= clock.due
         /\ clock' = [clock EXCEPT !.now = @ + dt]
    /\ UNCHANGED <<eng, gesture, last, saveTimeout, request, server, unseen, updates,
                   moved, view, event, page, file, front>>

PressTimed(u) ==
    /\ clock.ends < MaxEnds
    /\ ~timerDue(u)
    /\ Press(u)
    /\ eng'[u].input.isDragging /\ eng'[u].selectedPieces = <<Own[u]>>

PanEndTimed(u) ==
    /\ ~timerDue(u)
    /\ PanEnded(u)
    /\ LET wired == eng[u].input.isDragging /\ eng[u].onPieceMoveEnd
           timer == handlePieceMoveEnd(TRUE, saveTimeout[u], clock.due, clock.now)
           burst == clock.lastEnd # null /\ clock.now - clock.lastEnd < debounce
       IN clock' = IF wired
                   THEN [clock EXCEPT !.due = timer.due, !.lastEnd = clock.now,
                                      !.ends = @ + 1,
                                      !.saves = IF burst THEN @ ELSE 0]
                   ELSE clock
    /\ UNCHANGED <<page, file>>

SaveTimerDue(u) ==
    /\ timerDue(u)
    /\ SaveTimerFires(u)
    /\ clock' = [clock EXCEPT !.saves = @ + 1]
    /\ UNCHANGED <<page, file, front>>

NextDebounce ==
    \/ Tick
    \/ PressTimed("A")
    \/ PressUp("A")
    \/ PanStartHeld("A")
    \/ PanMoveDrag("A")
    \/ PanEndTimed("A")
    \/ SaveTimerDue("A")
    \/ saveSharedPuzzle("A")

SpecDebounce == InitShared /\ [][NextDebounce]_vars

\* C21: the save is debounced.  No save is issued while a release is less than
\* the debounce interval old, so none falls inside a burst of releases that
\* follow one another within the interval; once the last release of a burst is
\* more than the interval old, exactly one save has been issued for the burst;
\* the timer is pending exactly from a release to that save; and the state a
\* save posts is the state of the puzzle when the timer fires
C21_Debounced ==
    [][ /\ clock'.saves <= 1
        /\ clock'.lastEnd # null =>
             /\ saveTimeout'["A"] <=> clock'.saves = 0
             /\ clock'.now - clock'.lastEnd > debounce => clock'.saves = 1
        /\ clock'.saves # clock.saves /\ clock'.saves > 0 =>
             /\ clock.now - clock.lastEnd >= debounce
             /\ request'["A"] = getPuzzleState(eng["A"])
      ]_vars

\* two releases 100 ms apart, then one save, issued 250 ms after the second
\* while the next drag was under way: the save holds the piece where the drag
\* has taken it, not where it was released
C21_Witness ==
    /\ last = "post" /\ clock.ends = 2 /\ clock.saves = 1
    /\ clock.lastEnd = 100 /\ clock.now = 350
    /\ eng["A"].input.isDragging
    /\ Len(moved["A"]) = 2
    /\ request["A"] # none
    /\ <<request["A"].pieces[Own["A"] + 1].currentX,
         request["A"].pieces[Own["A"] + 1].currentY>> # moved["A"][2]

(***************************************************************************)
(* PuzzleCutter with its random numbers.  random() returns v / Den for a   *)
(* v of RandomValues.  A generator is the stream of the numbers it is      *)
(* going to return, taken round and round; its k-th number is at(rng, k).  *)
(* Mulberry32 is a fixed stream for each seed, Math.random any stream.     *)
(* The numbers of a cut are drawn in a fixed order (the edges between      *)
(* columns, the edges between rows, the scatter positions, the shuffle),   *)
(* so each is found by its index.  Lengths are pixels, the parameters of   *)
(* an edge variation thousandths.                                          *)
(***************************************************************************)
Den == 10
RandomValues == {0, 2, 4, 6, 8}
StreamLen == 6
Streams == [1 .. StreamLen -> RandomValues]

at(rng, k) == rng[((k - 1) % Len(rng)) + 1]

\* Mulberry32, cut down to a stream that the seed alone decides
createRNG(seed) ==
    [k \in 1 .. StreamLen |-> 2 * (((seed % 5) + k * k * ((seed % 3) + 1)) % 5)]

\* Math.round(Math.sqrt(targetCount * aspectRatio)), Math.round(cols /
\* aspectRatio), both at least 2
calculateGrid(image, targetCount) ==
    LET q4 == 4 * targetCount * image.width
        sq == CHOOSE c \in 0 .. targetCount * 2 :
                 /\ (2 * c - 1) * (2 * c - 1) * image.height <= q4 \/ c = 0
                 /\ q4 < (2 * c + 1) * (2 * c + 1) * image.height
        cols == Max2(2, sq)
        rows == Max2(2, (2 * sq * image.height + image.width) \div (2 * image.width))
    IN [ image |-> image, rows |-> rows, cols |-> cols,
         pieceWidth |-> image.width \div cols,
         pieceHeight |-> image.height \div rows ]

\* the four numbers drawn after the k-th
generateEdgeVariation(rng, k) ==
    [ neckWidth |-> 400 + (at(rng, k + 1) * 200) \div Den,
      headWidth |-> 700 + (at(rng, k + 2) * 300) \div Den,
      headHeight |-> 800 + (at(rng, k + 3) * 300) \div Den,
      neckHeight |-> 100 + (at(rng, k + 4) * 100) \div Den ]

\* the e-th edge that is generated (0, 1, ...): five numbers
generateEdge(rng, e) ==
    [ direction |-> IF 2 * at(rng, 5 * e + 1) > Den THEN 1 ELSE -1,
      variation |-> generateEdgeVariation(rng, 5 * e + 1) ]

horizontalEdges(c, rng) ==
    [r \in 0 .. c.rows - 1 |->
       [cl \in 0 .. c.cols - 2 |-> generateEdge(rng, r * (c.cols - 1) + cl)]]

verticalEdges(c, rng) ==
    [r \in 0 .. c.rows - 2 |->
       [cl \in 0 .. c.cols - 1 |->
          generateEdge(rng, c.rows * (c.cols - 1) + r * c.cols + cl)]]

edgeCount(c) == c.rows * (c.cols - 1) + (c.rows - 1) * c.cols

swap(positions, i, j) ==
    [positions EXCEPT ![i + 1] = positions[j + 1], ![j + 1] = positions[i + 1]]

RECURSIVE pickIndex(_, _, _, _)
\* do { j = Math.floor(random() * (i + 1)) } while (j === i && length > 2),
\* from the k-th number on: j, and the number that comes next
pickIndex(rng, k, i, length) ==
    LET j == (at(rng, k) * (i + 1)) \div Den
    IN IF j = i /\ length > 2 THEN pickIndex(rng, k + 1, i, length)
       ELSE [j |-> j, k |-> k + 1]

RECURSIVE fisherYates(_, _, _, _)
fisherYates(rng, k, positions, i) ==
    IF i <= 0 THEN positions
    ELSE LET d == pickIndex(rng, k, i, Len(positions))
         IN fisherYates(rng, d.k, swap(positions, i, d.j), i - 1)

RECURSIVE finalCheck(_, _, _)
\* a position that is still in its own cell is swapped with the next one
finalCheck(positions, i, cols) ==
    IF i >= Len(positions) THEN positions
    ELSE IF /\ positions[i + 1].originalRow = i \div cols
            /\ positions[i + 1].originalCol = i % cols
         THEN finalCheck(swap(positions, i, (i + 1) % Len(positions)), i + 1, cols)
         ELSE finalCheck(positions, i + 1, cols)

\* the scatter position of every cell, in the order of the cells
cellPositions(c, rng) ==
    LET base == 5 * edgeCount(c)
        cellWidth == c.image.width \div c.cols
        cellHeight == c.image.height \div c.rows
    IN [i \in 1 .. c.rows * c.cols |->
          [ x |-> ((i - 1) % c.cols) * cellWidth + cellWidth \div 5
                    + (at(rng, base + 2 * i - 1) * cellWidth * 3) \div (5 * Den),
            y |-> ((i - 1) \div c.cols) * cellHeight + cellHeight \div 5
                    + (at(rng, base + 2 * i) * cellHeight * 3) \div (5 * Den),
            originalRow |-> (i - 1) \div c.cols,
            originalCol |-> (i - 1) % c.cols ]]

RECURSIVE plainFisherYates(_, _, _, _)
plainFisherYates(rng, k, positions, i) ==
    IF i <= 0 THEN positions
    ELSE plainFisherYates(rng, k + 1,
                          swap(positions, i, (at(rng, k) * (i + 1)) \div Den), i - 1)

\* a plain shuffle: j = i allowed, no final check
shuffleAsItFalls(c, rng) ==
    LET n == c.rows * c.cols
    IN plainFisherYates(rng, 5 * edgeCount(c) + 2 * n + 1, cellPositions(c, rng), n - 1)

generateShuffledPositions(c, rng) ==
    LET n == c.rows * c.cols
    IN finalCheck(fisherYates(rng, 5 * edgeCount(c) + 2 * n + 1,
                              cellPositions(c, rng), n - 1), 0, c.cols)

flat == [direction |-> 0]

\* a facing side that copies the direction too
facingSame(edge) == edge

\* the side that faces an edge: the direction negated, the variation kept
facing(edge) == [direction |-> 0 - edge.direction, variation |-> edge.variation]

\* createPiece of the cutter: the four sides and the places of a piece
cutPiece(c, id, hEdges, vEdges, scatterPos) ==
    LET r == id \div c.cols
        cl == id % c.cols
    IN [ id |-> id, row |-> r, col |-> cl,
         tabs |-> [ top |-> IF r = 0 THEN flat ELSE facing(vEdges[r - 1][cl]),
                    right |-> IF cl = c.cols - 1 THEN flat ELSE hEdges[r][cl],
                    bottom |-> IF r = c.rows - 1 THEN flat ELSE vEdges[r][cl],
                    left |-> IF cl = 0 THEN flat ELSE facing(hEdges[r][cl - 1]) ],
         x |-> scatterPos.x, y |-> scatterPos.y,
         currentX |-> scatterPos.x, currentY |-> scatterPos.y,
         correctX |-> cl * c.pieceWidth, correctY |-> r * c.pieceHeight,
         isPlaced |-> FALSE, isLocked |-> FALSE, zIndex |-> id ]

generatePieces(c, rng) ==
    LET hEdges == horizontalEdges(c, rng)
        vEdges == verticalEdges(c, rng)
        scatterPositions == generateShuffledPositions(c, rng)
    IN [i \in 1 .. c.rows * c.cols |->
          cutPiece(c, i - 1, hEdges, vEdges, scatterPositions[i])]

\* cutImage once the image has loaded: random() is the seeded generator when
\* a seed is given and Math.random, any stream, when it is not
cutImage(image, pieceCount, seed, mathRandom) ==
    LET rng == IF seed # null THEN createRNG(seed) ELSE mathRandom
        c == calculateGrid(image, pieceCount)
    IN [ rows |-> c.rows, cols |-> c.cols,
         pieceWidth |-> c.pieceWidth, pieceHeight |-> c.pieceHeight,
         pieces |-> generatePieces(c, rng) ]

(***************************************************************************)
(* The page script around the cutter: Start New Puzzle, the load of the    *)
(* shared puzzle of the chosen image, and the save.  page.pieces are the   *)
(* pieces the engine holds as the cutter made them, page.image the image   *)
(* they were cut from; file is what api.php keeps for each image.          *)
(***************************************************************************)
imageSelect == {"square.jpg", "wide.jpg"}
PieceCounts == {4, 6}
Seeds == {0, 7}
MathRandoms == {<<0, 8, 4, 6, 2, 8>>, <<8, 2, 6, 0, 4>>}
undefined == -2

loadImage(imagePath) ==
    CASE imagePath = "square.jpg" -> [width |-> imageWidth, height |-> imageHeight]
      [] imagePath = "wide.jpg" -> [width |-> (3 * imageWidth) \div 2, height |-> imageHeight]
      [] OTHER -> [width |-> imageWidth, height |-> (3 * imageHeight) \div 2]

\* obj.key of a JSON object
get(obj, key) == IF key \in DOMAIN obj THEN obj[key] ELSE undefined

\* value || null
orNull(value) == IF value = undefined \/ value = 0 THEN null ELSE value

\* getPuzzleState of the page script: what is posted as the state
getSharedState(p) ==
    [ pieceCount |-> Len(p.pieces),
      image |-> p.currentImagePath,
      shapeSeed |-> p.currentShapeSeed,
      pieces |-> [i \in 1 .. Len(p.pieces) |->
                    [ id |-> p.pieces[i].id,
                      currentX |-> p.pieces[i].currentX,
                      currentY |-> p.pieces[i].currentY,
                      isPlaced |-> p.pieces[i].isPlaced,
                      isLocked |-> p.pieces[i].isLocked,
                      zIndex |-> p.pieces[i].zIndex ]] ]

\* saveSharedPuzzle of api.php: the keys it writes to the file of the image
stateData(data, existingState) ==
    [ exists |-> TRUE,
      image |-> data.image,
      pieceCount |-> data.state.pieceCount,
      pieces |-> data.state.pieces,
      selections |-> IF existingState.exists THEN existingState.selections ELSE <<>> ]

\* saveSharedPuzzle of the page script: nothing without pieces
savedFile(p, f) ==
    IF p.pieces = <<>> THEN f
    ELSE [f EXCEPT ![p.currentImagePath] =
            stateData([image |-> p.currentImagePath, state |-> getSharedState(p)], @)]

\* startNewPuzzle: the seed is drawn, the image is cut, the pieces are set
\* and saved; a cut that fails leaves all but the seed
startNewPuzzle(p, pieceCount, seed, loads) ==
    IF ~loads THEN [p EXCEPT !.currentShapeSeed = seed]
    ELSE [p EXCEPT !.currentShapeSeed = seed,
                   !.pieces = cutImage(loadImage(p.currentImagePath), pieceCount,
                                       seed, <<>>).pieces,
                   !.image = p.currentImagePath,
                   !.puzzleLoaded = TRUE]

\* restoreSharedPuzzle: the seed of the saved state, the cut, the saved places
\* laid over the new pieces; its catch swallows a cut that fails
restoreSharedPuzzlePage(p, puzzleData, mathRandom, loads) ==
    LET seed == orNull(get(puzzleData, "shapeSeed"))
        pieces == cutImage(loadImage(puzzleData.image), puzzleData.pieceCount,
                           seed, mathRandom).pieces
        overlay(piece) ==
          IF \E i \in 1 .. Len(puzzleData.pieces) : puzzleData.pieces[i].id = piece.id
          THEN LET savedPiece ==
                     puzzleData.pieces[CHOOSE i \in 1 .. Len(puzzleData.pieces) :
                                          puzzleData.pieces[i].id = piece.id]
               IN [piece EXCEPT !.currentX = savedPiece.currentX,
                                !.currentY = savedPiece.currentY,
                                !.isPlaced = savedPiece.isPlaced,
                                !.isLocked = savedPiece.isLocked,
                                !.zIndex = savedPiece.zIndex]
          ELSE piece
    IN IF ~loads THEN [p EXCEPT !.currentShapeSeed = seed]
       ELSE [p EXCEPT !.currentShapeSeed = seed,
                      !.pieces = [i \in 1 .. Len(pieces) |-> overlay(pieces[i])],
                      !.image = puzzleData.image]

\* autoLoadPuzzle: the saved puzzle of the image is restored and the puzzle
\* marked as loaded; without one the engine is emptied
autoLoadPuzzle(p, f, mathRandom, loads) ==
    LET result == f[p.currentImagePath]
    IN IF result.exists
       THEN [restoreSharedPuzzlePage(p, result, mathRandom, loads)
               EXCEPT !.puzzleLoaded = TRUE]
       ELSE [p EXCEPT !.pieces = <<>>, !.image = "none", !.puzzleLoaded = FALSE]

(***************************************************************************)
(* One page and the files of api.php.  The image may fail to load at any   *)
(* cut; Math.random yields any of MathRandoms.                             *)
(***************************************************************************)
engineVars == <<eng, gesture, saveTimeout, request, server, unseen, updates,
                moved, view, event, clock, front>>

InitPage ==
    /\ eng = [u \in Users |-> constructor]
    /\ server = none
    /\ Idle

\* what a load has done: nothing saved, the saved puzzle cut, or the cut failed
loaded(result, loads) ==
    IF ~result.exists THEN "load.none" ELSE IF loads THEN "load" ELSE "load.failed"

StartNewPuzzle ==
    \E pieceCount \in PieceCounts, seed \in Seeds, loads \in BOOLEAN :
       /\ page' = startNewPuzzle(page, pieceCount, seed, loads)
       /\ file' = IF loads THEN savedFile(page', file) ELSE file
       /\ last' = IF loads THEN "cut" ELSE "cut.failed"
       /\ UNCHANGED engineVars

\* the page is opened again, or a backup was restored: the page keeps its image
AutoLoadPuzzle ==
    \E mathRandom \in MathRandoms, loads \in BOOLEAN :
       /\ page' = autoLoadPuzzle(page, file, mathRandom, loads)
       /\ last' = loaded(file[page.currentImagePath], loads)
       /\ UNCHANGED <<file, engineVars>>

\* another image of the dropdown is chosen
HandleImageChange ==
    \E imagePath \in imageSelect, mathRandom \in MathRandoms, loads \in BOOLEAN :
       /\ imagePath # page.currentImagePath
       /\ page' = autoLoadPuzzle([page EXCEPT !.currentImagePath = imagePath],
                                 file, mathRandom, loads)
       /\ last' = loaded(file[imagePath], loads)
       /\ UNCHANGED <<file, engineVars>>

\* a piece is let go and the save timer runs out
SaveAfterMove ==
    /\ page.puzzleLoaded
    /\ file' = savedFile(page, file)
    /\ file' # file
    /\ last' = "save"
    /\ UNCHANGED <<page, engineVars>>

NextPage == StartNewPuzzle \/ AutoLoadPuzzle \/ HandleImageChange \/ SaveAfterMove

SpecPage == InitPage /\ [][NextPage]_vars

shape(pieces) == [i \in 1 .. Len(pieces) |-> pieces[i].tabs]

\* the file of the image is the save of the puzzle the page holds
savedFromPage ==
    /\ page.puzzleLoaded
    /\ page.pieces # <<>>
    /\ page.image = page.currentImagePath
    /\ file[page.currentImagePath].exists
    /\ file[page.currentImagePath].pieces = getSharedState(page).pieces

\* C22: when the page loads the puzzle it has saved and the image loads, every
\* piece has after the load the sides it had before the save.
C22_SameShapeAfterReload ==
    [][ /\ savedFromPage
        /\ page'.currentImagePath = page.currentImagePath
        /\ page'.image = page.currentImagePath
        /\ page'.pieces # <<>>
        /\ file' = file
        => shape(page'.pieces) = shape(page.pieces) ]_vars

\* a puzzle cut with seed 7 was saved, and the load has cut other sides
C22_Witness ==
    /\ page.puzzleLoaded
    /\ page.currentShapeSeed = null
    /\ page.pieces # <<>>
    /\ file[page.currentImagePath].exists
    /\ shape(page.pieces) # shape(cutImage(loadImage(page.image), Len(page.pieces), 7, <<>>).pieces)

(***************************************************************************)
(* The cutter alone: an image of any of three shapes is cut into 4 or 6    *)
(* pieces with a seed or with Math.random yielding any stream, then the    *)
(* puzzle is reset.  A stream has a number below 1/2, so that the choice   *)
(* of j comes to an end.                                                   *)
(***************************************************************************)
MathRandomStreams == {rng \in Streams : \E k \in 1 .. StreamLen : 2 * rng[k] < Den}

\* cutImage is called and the engine is given the pieces
CutImage ==
    /\ page.pieces = <<>>
    /\ \E imagePath \in Images, pieceCount \in PieceCounts :
          \E cut \in {<<seed, <<>>>> : seed \in Seeds}
                       \cup {<<null, rng>> : rng \in MathRandomStreams} :
             page' = [page EXCEPT !.image = imagePath,
                                  !.pieces = cutImage(loadImage(imagePath),
                                                      pieceCount, cut[1], cut[2]).pieces]
    /\ last' = "cut"
    /\ UNCHANGED <<file, engineVars>>

\* resetPuzzle: the engine is emptied
ResetPuzzle ==
    /\ page.pieces # <<>>
    /\ page' = [page EXCEPT !.pieces = <<>>, !.image = "none", !.puzzleLoaded = FALSE]
    /\ last' = "init"
    /\ UNCHANGED <<file, engineVars>>

NextCutter == CutImage \/ ResetPuzzle

SpecCutter == InitPage /\ [][NextCutter]_vars

\* the grid of the pieces the page holds
cutCols == 1 + CHOOSE c \in 0 .. Len(page.pieces) :
                  /\ \E i \in 1 .. Len(page.pieces) : page.pieces[i].col = c
                  /\ \A i \in 1 .. Len(page.pieces) : page.pieces[i].col <= c
cutRows == Len(page.pieces) \div cutCols
pieceAt(r, c) == page.pieces[r * cutCols + c + 1]

\* the grid cell a scatter position was generated for
cellOf(piece) ==
    << piece.y \div (loadImage(page.image).height \div cutRows),
       piece.x \div (loadImage(page.image).width \div cutCols) >>

C27_SidesFit ==
    page.pieces # <<>> =>
       \A r \in 0 .. cutRows - 1, c \in 0 .. cutCols - 1 :
          LET tabs == pieceAt(r, c).tabs
          IN /\ pieceAt(r, c).row = r /\ pieceAt(r, c).col = c
             /\ IF c = cutCols - 1 THEN tabs.right = flat
                ELSE LET left == pieceAt(r, c + 1).tabs.left
                     IN /\ tabs.right.direction \in {1, -1}
                        /\ left.direction = 0 - tabs.right.direction
                        /\ left.variation = tabs.right.variation
             /\ IF r = cutRows - 1 THEN tabs.bottom = flat
                ELSE LET top == pieceAt(r + 1, c).tabs.top
                     IN /\ tabs.bottom.direction \in {1, -1}
                        /\ top.direction = 0 - tabs.bottom.direction
                        /\ top.variation = tabs.bottom.variation
             /\ (r = 0 => tabs.top = flat)
             /\ (c = 0 => tabs.left = flat)

\* a cut of three columns whose middle piece of the top row has a tab to the
\* right and a blank below
C27_Witness ==
    /\ Len(page.pieces) = 6 /\ cutCols = 3
    /\ pieceAt(0, 1).tabs.right.direction = 1
    /\ pieceAt(0, 2).tabs.left.direction = -1
    /\ pieceAt(0, 1).tabs.bottom.direction = -1
    /\ pieceAt(1, 1).tabs.top.direction = 1

\* C28: after a load or a new cut whose image failed to load, a puzzle is
\* marked as loaded only if the engine holds pieces that were cut from the
\* image the page shows.
C28_FailedCutNotLoaded ==
    last \in {"load.failed", "cut.failed"} =>
       (page.puzzleLoaded =>
          page.pieces # <<>> /\ page.image = page.currentImagePath)

\* after a failed load of another image the pieces of the image shown before
\* have been saved as the puzzle of the new image
C28_Witness ==
    /\ last = "save"
    /\ page.puzzleLoaded
    /\ page.image # page.currentImagePath
    /\ file[page.currentImagePath].pieceCount = 4
    /\ file[page.currentImagePath].pieces = getSharedState(page).pieces
    /\ page.image = "square.jpg" /\ page.currentImagePath = "wide.jpg"

(***************************************************************************)
(* The z-order of a drag.                                                  *)
(***************************************************************************)
\* the pieces user u drags after the step
dragged(u) == {p \in PieceIds : InSeq(p, eng[u].selectedPieces')}

\* every dragged piece is above every piece that is not dragged
aboveTheRest(u) ==
    \A p \in dragged(u), q \in PieceIds \ dragged(u) :
       eng[u].pieces[p].zIndex' > eng[u].pieces[q].zIndex'

C23_RaisedAboveTheRest ==
    [][ \A u \in Users : Activated(u) => dragged(u) # {} /\ aboveTheRest(u) ]_vars

C24_OrderKept ==
    [][ \A u \in Users :
           Activated(u) =>
              \A p \in dragged(u), q \in dragged(u) :
                 eng[u].pieces[p].zIndex < eng[u].pieces[q].zIndex
                 => eng[u].pieces[p].zIndex' < eng[u].pieces[q].zIndex' ]_vars

\* two pieces have just been joined and the first member of the group is
\* drawn above the second: holding the group is going to turn them round
C24_Witness ==
    /\ last = "merge"
    /\ ~eng["A"].input.isDragging
    /\ \E g \in DOMAIN eng["A"].groups :
          /\ Len(eng["A"].groups[g]) = 2
          /\ eng["A"].pieces[eng["A"].groups[g][1]].zIndex
                > eng["A"].pieces[eng["A"].groups[g][2]].zIndex
          /\ eng["A"].selectedPieces = eng["A"].groups[g]

(***************************************************************************)
(* Group ids over a session: one page that drags and joins pieces, gets    *)
(* updates of another user, loads what it has saved and starts a new       *)
(* puzzle.                                                                 *)
(***************************************************************************)
\* startNewPuzzle, the engine's part: the new pieces are set
NewCut(u) ==
    /\ gesture[u] = "none"
    /\ Step1(u, "cut", setPieces(eng[u], [p \in PieceIds |-> createPiece(p, shuffle[p])]))
    /\ UNCHANGED <<gesture, saveTimeout, request, server, unseen, updates, moved, view, event, clock, page, file>>

\* the page loads the state it has saved last
Reload(u) ==
    /\ gesture[u] = "none"
    /\ last # "restore"
    /\ Step1(u, "restore", restoreSharedPuzzle(eng[u], getPuzzleState(eng[u])))
    /\ UNCHANGED <<gesture, saveTimeout, request, server, unseen, updates, moved, view, event, clock, page, file>>

\* an update with the state of another user who has joined or moved pieces
PeerUpdate(u) ==
    /\ updates < MaxUpdates
    /\ \E remotePuzzle \in WellFormed :
          Step1(u, "remote", handleRemotePuzzleUpdate(eng[u], remotePuzzle))
    /\ updates' = updates + 1
    /\ UNCHANGED <<gesture, saveTimeout, request, server, unseen, moved, view, event, clock, page, file>>

NextGroups ==
    \/ Press("A")
    \/ PressUp("A")
    \/ PanStartHeld("A")
    \/ PanMoveDrag("A")
    \/ PanEnd("A")
    \/ PeerUpdate("A")
    \/ Reload("A")
    \/ NewCut("A")

SpecGroups == Init /\ [][NextGroups]_vars

groupIds(e) == DOMAIN e.groups

\* C25: group ids come from a counter that never goes back: an id that
\* becomes the id of a group has not been handed out before, and the groups
\* of a new cut take none of the ids that were in use before it.
C25_IdsNeverReused ==
    [][ \A u \in Users :
           /\ eng[u].nextGroupId' >= eng[u].nextGroupId
           /\ \A g \in groupIds(eng[u])' \ groupIds(eng[u]) : g >= eng[u].nextGroupId
           /\ last' = "cut" => groupIds(eng[u])' \cap groupIds(eng[u]) = {} ]_vars

\* a new cut after pieces have been dragged: its groups have the ids of the
\* first cut again and the counter is back where it was
C25_Witness ==
    /\ last = "cut"
    /\ groupIds(eng["A"]) = PieceIds
    /\ eng["A"].nextGroupId = NumPieces
    /\ front["A"] > NumPieces

(***************************************************************************)
(* The engine's methods on their edge cases: called with the id of a group *)
(* that a merge has deleted, with nothing selected, with no pieces.        *)
(***************************************************************************)
\* the ids of the groups that a merge has deleted
absorbed(e) == PieceIds \ groupIds(e)

hasPieces(u) == eng[u].pieces # <<>>

EdgeCase(u, op, e) ==
    /\ Step1(u, op, e)
    /\ UNCHANGED <<gesture, saveTimeout, request, server, unseen, updates, moved, view, event, clock, page, file>>

StaleMoveGroup(u) ==
    /\ hasPieces(u)
    /\ \E g \in absorbed(eng[u]), dx \in {Step}, dy \in {0 - Step} :
          EdgeCase(u, "stale.move", moveGroup(eng[u], g, dx, dy))

StaleMergeGroups(u) ==
    /\ hasPieces(u)
    /\ \E g \in absorbed(eng[u]), h \in PieceIds :
          \/ EdgeCase(u, "stale.merge", mergeGroups(eng[u], g, h))
          \/ EdgeCase(u, "stale.merge", mergeGroups(eng[u], h, g))

StaleSnapGroup(u) ==
    /\ hasPieces(u)
    /\ \E g \in absorbed(eng[u]) :
          EdgeCase(u, "stale.snap", snapGroupToFinalPosition(eng[u], g))

EmptyCheckSnapping(u) ==
    /\ hasPieces(u)
    /\ eng[u].selectedPieces = <<>>
    /\ EdgeCase(u, "empty.snap", checkSnapping(eng[u]))

EmptyMove(u) ==
    /\ hasPieces(u)
    /\ eng[u].selectedPieces = <<>>
    /\ EdgeCase(u, "empty.move", moveSelectedPieces(eng[u], Step, Step))

\* setPieces([]), as the reset and the upload call it
SetNoPieces(u) ==
    /\ gesture[u] = "none"
    /\ EdgeCase(u, "empty.set", setPieces(eng[u], <<>>))

NextEdgeCases ==
    \/ hasPieces("A") /\ Press("A")
    \/ hasPieces("A") /\ PressUp("A")
    \/ hasPieces("A") /\ PanStartHeld("A")
    \/ hasPieces("A") /\ PanMoveDrag("A")
    \/ hasPieces("A") /\ PanEnd("A")
    \/ NewCut("A")
    \/ StaleMoveGroup("A")
    \/ StaleMergeGroups("A")
    \/ StaleSnapGroup("A")
    \/ EmptyCheckSnapping("A")
    \/ EmptyMove("A")
    \/ SetNoPieces("A")

SpecEdgeCases == Init /\ [][NextEdgeCases]_vars

SELECTION_TIMEOUT == 2
SSE_TIMEOUT == 4
cleanupInterval == 5

\* the time() of the first state and the seconds a behaviour is followed for
StartSecond == 10
MaxSeconds == 6

time == clock.now \div 1000

sharedImage == "square.jpg"

\* $selections[$uid] = $v and unset($selections[$uid])
put(selections, uid, v) ==
    [u \in DOMAIN selections \cup {uid} |-> IF u = uid THEN v ELSE selections[u]]
unset(selections, uid) ==
    [u \in DOMAIN selections \ {uid} |-> selections[u]]

\* a loop that unsets nothing
allSelections(selections, now) == selections

\* the loop over the selections that unsets each one with
\* ($now - $selection['timestamp']) > SELECTION_TIMEOUT; every selection has
\* a timestamp, updateSelection being the only writer of one
freshSelections(selections, now) ==
    [uid \in {u \in DOMAIN selections :
                ~(now - selections[u].timestamp > SELECTION_TIMEOUT)}
       |-> selections[uid]]

\* safeWriteJson: the file with its time of modification
written(state, now) ==
    [k \in DOMAIN state \cup {"mtime"} |-> IF k = "mtime" THEN now ELSE state[k]]

filemtime(f) == IF f.exists THEN f.mtime ELSE 0

\* updateSelection: 404 without a file; the selection of the user is set
\* (pieceIds not empty) or cleared, stale selections are unset, the file is
\* written
updateSelection(f, userId, pieceIds, now) ==
    IF ~f.exists THEN f
    ELSE LET mine == IF Len(pieceIds) > 0
                     THEN put(f.selections, userId,
                              [pieceIds |-> pieceIds, timestamp |-> now])
                     ELSE unset(f.selections, userId)
         IN written([f EXCEPT !.selections = freshSelections(mine, now)], now)

\* loadSharedPuzzle: the response, stale selections unset in it; the file is
\* not written
loadSharedPuzzle(f, now) ==
    IF ~f.exists THEN [exists |-> FALSE]
    ELSE [exists |-> TRUE,
          puzzle |-> [f EXCEPT !.selections = freshSelections(@, now)]]

\* subscribeToUpdates up to the loop: the variables of the loop and the
\* connected event
sseConnect(f, now) ==
    [ action |-> "subscribe", lastMtime |-> filemtime(f), startTime |-> now,
      lastCleanup |-> 0, sent |-> [event |-> "connected", at |-> now] ]

\* one pass of the loop of subscribeToUpdates: the cleanup of the file when
\* it is due, and the puzzleUpdate event when the file is newer than the one
\* last sent, stale selections and the subscriber's own unset in it
ssePoll(r, f, userId, now) ==
    LET due == now - r.lastCleanup >= cleanupInterval
        cleaned == due /\ f.exists
                       /\ freshSelections(f.selections, now) # f.selections
        f1 == IF cleaned
              THEN written([f EXCEPT !.selections = freshSelections(@, now)], now)
              ELSE f
        currentMtime == filemtime(f1)
        push == currentMtime > r.lastMtime
    IN [ file |-> f1,
         cleaned |-> cleaned,
         push |-> push,
         request |->
            [r EXCEPT !.lastCleanup = IF due THEN now ELSE @,
                      !.lastMtime = IF push THEN currentMtime ELSE @,
                      !.sent = IF push
                               THEN [ event |-> "puzzleUpdate", at |-> now,
                                      timestamp |-> currentMtime,
                                      puzzle |-> [f1 EXCEPT !.selections =
                                                    unset(freshSelections(@, now), userId)] ]
                               ELSE @] ]

\* the state a page posts after it has cut the image
postedState ==
    getSharedState(startNewPuzzle(noPage, 4, 0, TRUE))

\* the request user u has open
openRequest(u) == IF request[u] = none THEN "none" ELSE request[u].action

selectionVars == <<eng, gesture, saveTimeout, server, unseen, updates, moved, view,
                   event, page, front>>

InitSelections ==
    /\ eng = [u \in Users |-> constructor]
    /\ server = none
    /\ gesture = [u \in Users |-> "none"]
    /\ last = "init"
    /\ saveTimeout = [u \in Users |-> FALSE]
    /\ request = [u \in Users |-> none]
    /\ unseen = [u \in Users |-> FALSE]
    /\ updates = 0
    /\ moved = [u \in Users |-> <<>>]
    /\ view = constructorView
    /\ event = noEvent
    /\ clock = [noTimer EXCEPT !.now = StartSecond * 1000]
    /\ page = noPage
    /\ file = noFile
    /\ front = [u \in Users |-> 0]

\* a second passes
TickSecond ==
    /\ time < StartSecond + MaxSeconds
    /\ clock' = [clock EXCEPT !.now = @ + 1000]
    /\ last' = "tick"
    /\ UNCHANGED <<request, file>>
    /\ UNCHANGED selectionVars

\* POST saveShared: the selections of the file are kept as they are
SaveShared(u) ==
    /\ file' = [file EXCEPT ![sharedImage] =
                  written(stateData([image |-> sharedImage, state |-> postedState], @),
                          time)]
    /\ last' = "save"
    /\ UNCHANGED <<request, clock>>
    /\ UNCHANGED selectionVars

\* POST updateSelection with the pieces the user holds, or none
UpdateSelection(u) ==
    /\ \E pieceIds \in {<<>>, <<Own[u]>>} :
         /\ file' = [file EXCEPT ![sharedImage] = updateSelection(@, u, pieceIds, time)]
         /\ last' = IF file[sharedImage].exists THEN "select" ELSE "select.404"
    /\ UNCHANGED <<request, clock>>
    /\ UNCHANGED selectionVars

\* GET loadShared
LoadShared(u) ==
    /\ openRequest(u) # "subscribe"
    /\ request' = [request EXCEPT ![u] =
                     [ action |-> "loadShared",
                       sent |-> [ event |-> "response", at |-> time,
                                  data |-> loadSharedPuzzle(file[sharedImage], time) ] ]]
    /\ last' = "load"
    /\ UNCHANGED <<file, clock>>
    /\ UNCHANGED selectionVars

\* GET subscribe: the stream opens
SseConnect(u) ==
    /\ openRequest(u) # "subscribe"
    /\ request' = [request EXCEPT ![u] = sseConnect(file[sharedImage], time)]
    /\ last' = "connected"
    /\ UNCHANGED <<file, clock>>
    /\ UNCHANGED selectionVars

\* the loop of the stream goes round once
SsePoll(u) ==
    /\ openRequest(u) = "subscribe"
    /\ time - request[u].startTime < SSE_TIMEOUT
    /\ LET r == ssePoll(request[u], file[sharedImage], u, time)
       IN /\ file' = [file EXCEPT ![sharedImage] = r.file]
          /\ request' = [request EXCEPT ![u] = r.request]
          /\ last' = IF r.cleaned THEN "poll.cleaned"
                     ELSE IF r.push THEN "poll.push" ELSE "poll"
    /\ UNCHANGED clock
    /\ UNCHANGED selectionVars

\* the loop ends after SSE_TIMEOUT: the timeout event, the stream closes
SseTimeout(u) ==
    /\ openRequest(u) = "subscribe"
    /\ time - request[u].startTime >= SSE_TIMEOUT
    /\ request' = [request EXCEPT ![u] = none]
    /\ last' = "timeout"
    /\ UNCHANGED <<file, clock>>
    /\ UNCHANGED selectionVars

NextSelections ==
    \/ TickSecond
    \/ SaveShared("A")
    \/ \E u \in Users : UpdateSelection(u)
    \/ LoadShared("B")
    \/ SseConnect("B")
    \/ SsePoll("B")
    \/ SseTimeout("B")

SpecSelections == InitSelections /\ [][NextSelections]_vars

\* the selections of a puzzle that are older than the timeout at time now
stale(puzzle, now) ==
    {uid \in DOMAIN puzzle.selections :
        now - puzzle.selections[uid].timestamp > SELECTION_TIMEOUT}

\* C30: a selection whose timestamp is older than the selection timeout is in
\* no loaded puzzle and in no update pushed to a subscriber, as of the time of
\* the sending; and it is no longer in the file once updateSelection or the
\* cleanup of a subscription has written the file.
C30_StaleSelectionsDropped ==
    /\ \A u \in Users :
         request[u] # none =>
            /\ request[u].sent.event = "puzzleUpdate"
                 => stale(request[u].sent.puzzle, request[u].sent.at) = {}
            /\ (request[u].sent.event = "response" /\ request[u].sent.data.exists)
                 => stale(request[u].sent.data.puzzle, request[u].sent.at) = {}
    /\ last \in {"select", "poll.cleaned"} => stale(file[sharedImage], time) = {}

\* an update has just been pushed while the file held a stale selection of
\* the other user, the cleanup not being due, and the update is without it
C30_Witness ==
    /\ last = "poll.push"
    /\ openRequest("B") = "subscribe"
    /\ request["B"].sent.event = "puzzleUpdate"
    /\ request["B"].sent.at = time
    /\ "A" \in stale(file[sharedImage], time)
    /\ "A" \notin DOMAIN request["B"].sent.puzzle.selections

(***************************************************************************)
(* Properties of the groups as assemblies.                                 *)
(***************************************************************************)
\* pieces p and q of engine e lie to each other as they do in the picture
rigid(e, p, q) ==
    /\ e.pieces[p].currentX - e.pieces[q].currentX = correctX(p) - correctX(q)
    /\ e.pieces[p].currentY - e.pieces[q].currentY = correctY(p) - correctY(q)

\* C39: any two pieces of one group lie to each other as they do in the
\* picture, in every state.
C39_GroupsRigid ==
    \A u \in Users : \A p, q \in PieceIds :
       eng[u].pieces[p].groupId = eng[u].pieces[q].groupId => rigid(eng[u], p, q)

\* the drag is over, nothing is selected, and two pieces of one group are
\* apart from where the merge put them
C39_Witness ==
    /\ gesture["A"] = "none"
    /\ eng["A"].selectedPieces = <<>>
    /\ \E p, q \in PieceIds :
          /\ eng["A"].pieces[p].groupId = eng["A"].pieces[q].groupId
          /\ ~rigid(eng["A"], p, q)

\* C40: no group holds a locked piece and a piece that is not locked.
C40_LockUniform ==
    \A u \in Users : \A p, q \in PieceIds :
       eng[u].pieces[p].groupId = eng[u].pieces[q].groupId
       => eng[u].pieces[p].isLocked = eng[u].pieces[q].isLocked

\* the pieces of engine e that are placed
placedIn(e) == {p \in PieceIds : e.pieces[p].isPlaced}

\* C37: stats.placedPieces is the number of pieces whose isPlaced is true
\* and is at most stats.totalPieces, after snaps, loads and remote updates,
\* so that the progress is 100% exactly when every piece is placed.
C37_PlacedCounted ==
    \A u \in Users :
       /\ eng[u].placedPieces = Cardinality(placedIn(eng[u]))
       /\ eng[u].placedPieces <= NumPieces
       /\ eng[u].placedPieces = NumPieces <=> placedIn(eng[u]) = PieceIds

\* an update in which the other user has placed piece 0 has arrived while
\* piece 0 is held here: the counter is 1 and no piece is placed
C37_Witness ==
    /\ last = "remote"
    /\ eng["A"].selectedPieces = <<0>>
    /\ eng["A"].placedPieces = 1
    /\ placedIn(eng["A"]) = {}

(***************************************************************************)
(* One page that drags pieces while the other user assembles and places a  *)
(* group.                                                                  *)
(***************************************************************************)
\* the other user joined pieces 0 and 1 and put the group on its solved
\* position
peerAssembled ==
    getPuzzleState(Drag(Drag(Drag(init, 0, <<Step, Step>>), 1, <<Step, Step>>), 0, <<0, 0>>))

\* an update with that state
PeerAssembled(u) ==
    /\ updates < MaxUpdates
    /\ Step1(u, "remote", handleRemotePuzzleUpdate(eng[u], peerAssembled))
    /\ updates' = updates + 1
    /\ UNCHANGED <<gesture, saveTimeout, request, server, unseen, moved, view, event, clock, page, file>>

NextAssembly ==
    \/ Press("A")
    \/ PressUp("A")
    \/ PanStartHeld("A")
    \/ PanMoveDrag("A")
    \/ PanEnd("A")
    \/ PeerAssembled("A")

SpecAssembly == Init /\ [][NextAssembly]_vars

\* the update has arrived while piece 1 is held: pieces 0 and 1 are one
\* group, piece 0 is locked and piece 1 is not
C40_Witness ==
    /\ last = "remote"
    /\ eng["A"].selectedPieces = <<1>>
    /\ eng["A"].pieces[0].groupId = eng["A"].pieces[1].groupId
    /\ eng["A"].pieces[0].isLocked
    /\ ~eng["A"].pieces[1].isLocked

(***************************************************************************)
(* The engine with its own touch handlers under several fingers.           *)
(* gesture["A"] names how many fingers are on the screen; a touch event    *)
(* carries that number as touches.length.  The centre of a pinch is kept   *)
(* in pinchStartScreenX, pinchStartScreenY, the ratio of the distances of  *)
(* the fingers is the scale of the event.                                  *)
(***************************************************************************)
\* the fingers a behaviour has on the screen at most
MaxFingers == 3

fingerNames == <<"one", "two", "three", "four", "five">>
named(n) == IF n = 0 THEN "none" ELSE fingerNames[n]
fingers ==
    IF gesture["A"] = "none" THEN 0
    ELSE CHOOSE n \in 1 .. Len(fingerNames) : fingerNames[n] = gesture["A"]

\* handleTouchStart with touches.length fingers: one finger starts the hold
\* timer or the pan, two start the pinch, more do nothing
touchStart(v, touches, screenX, screenY, piece) ==
    IF touches = 1 THEN handleTouchStart(v, screenX, screenY, piece)
    ELSE IF touches = 2
    THEN [ clearHoldTimer(v) EXCEPT !.isPanning = FALSE, !.isPinching = TRUE,
                                    !.pinchStartScale = v.camera.scale,
                                    !.pinchStartScreenX = screenX,
                                    !.pinchStartScreenY = screenY ]
    ELSE v

\* handleTouchMove with touches.length fingers
touchMove(v, touches, screenX, screenY, scale) ==
    IF touches = 1 THEN handleTouchMove(v, screenX, screenY)
    ELSE IF touches = 2 /\ v.isPinching
    THEN pinchMoveIncremental(v, screenX, screenY, scale)
    ELSE v

\* where the fingers come down and move to
FingerXs == {400, 425}
FingerYs == {300}

FingerDown ==
    /\ view.hasPieces /\ fingers < MaxFingers
    /\ \E x \in FingerXs, y \in FingerYs, piece \in BOOLEAN :
         /\ view' = touchStart(view, fingers + 1, x, y, piece)
         /\ event' = [event EXCEPT !.type = "touchstart", !.x = x, !.y = y,
                                   !.startX = x, !.startY = y]
    /\ phase(named(fingers + 1))
    /\ UNCHANGED others

\* the hold delay has elapsed with the timer still set
HoldElapsed ==
    /\ view.holdTimer
    /\ view' = holdTimerFires(view)
    /\ event' = [event EXCEPT !.type = "holdTimer"]
    /\ UNCHANGED <<gesture, others>>

\* the fingers move: with two of them the event is a pinch move
FingerMove ==
    /\ fingers >= 1
    /\ fingers = 2 => event.n < MaxZoom
    /\ \E x \in FingerXs, y \in FingerYs, scale \in PinchScales :
         /\ fingers # 2 => (scale = ScaleOne /\ x # event.x)
         /\ view' = touchMove(view, fingers, x, y, scale)
         /\ event' = [event EXCEPT !.type = "touchmove", !.x = x, !.y = y,
                                   !.n = IF fingers = 2 THEN @ + 1 ELSE @]
    /\ FollowedPan(view')
    /\ UNCHANGED <<gesture, others>>

\* one finger is lifted
FingerUp ==
    /\ fingers >= 1
    /\ view' = handleTouchEnd(view)
    /\ event' = [event EXCEPT !.type = "touchend"]
    /\ phase(named(fingers - 1))
    /\ UNCHANGED others

NextFingers ==
    \/ SetPieces
    \/ FingerDown
    \/ HoldElapsed
    \/ FingerMove
    \/ FingerUp

SpecFingers == Init /\ [][NextFingers]_vars

\* the gesture modes that are on
modes(v) ==
    {m \in {"isDragging", "isPanning", "isPinching"} : v[m]}

\* C31: at most one gesture mode is on at any moment, whatever the order of
\* the touch events.
C31_OneMode == Cardinality(modes(view)) <= 1

\* a second finger has come down while a piece is held: the drag and the
\* pinch are both on
C31_Witness ==
    /\ fingers = 2
    /\ event.type = "touchstart"
    /\ modes(view) = {"isDragging", "isPinching"}

\* C32: when every finger has been lifted, no gesture mode is on and no hold
\* timer is pending.
C32_IdleAfterRelease ==
    fingers = 0 => (modes(view) = {} /\ ~view.holdTimer)

\* the last finger has been lifted and the pan is still on
C32_Witness ==
    /\ fingers = 0
    /\ event.type = "touchend"
    /\ view.isPanning

(***************************************************************************)
(* The page while it changes the image.  handleImageChange sets the path   *)
(* and awaits autoLoadPuzzle, which awaits the load of the saved puzzle:   *)
(* timers run while it waits.  request["A"] is the load the page waits     *)
(* for; page.image is the image the pieces of the engine were cut from.    *)
(***************************************************************************)
switchVars == <<eng, gesture, server, unseen, updates, moved, view, event, clock, front>>

\* the page waits for no load
settled == request["A"] = none

NewPuzzle == settled /\ StartNewPuzzle

\* a piece is let go, or the reference image is toggled: the save is due in
\* 250 ms
MoveEnd ==
    /\ settled
    /\ page.puzzleLoaded
    /\ saveTimeout' = [saveTimeout EXCEPT !["A"] =
                         handlePieceMoveEnd(page.puzzleLoaded, @, clock.due, clock.now).pending]
    /\ last' = "moveend"
    /\ UNCHANGED <<page, file, request, switchVars>>

\* the timer runs out: saveSharedPuzzle
SaveTimerRuns ==
    /\ saveTimeout["A"]
    /\ saveTimeout' = [saveTimeout EXCEPT !["A"] = FALSE]
    /\ file' = savedFile(page, file)
    /\ last' = IF page.pieces = <<>> THEN "save.none" ELSE "save"
    /\ UNCHANGED <<page, request, switchVars>>

\* handleImageChange up to its await
ImageChangeBegins ==
    /\ settled
    /\ \E imagePath \in imageSelect :
         /\ imagePath # page.currentImagePath
         /\ page' = [page EXCEPT !.currentImagePath = imagePath]
         /\ request' = [request EXCEPT !["A"] = [action |-> "loadShared", image |-> imagePath]]
    /\ last' = "change"
    /\ UNCHANGED <<file, saveTimeout, switchVars>>

\* the load has come back: the rest of autoLoadPuzzle
LoadArrives ==
    /\ ~settled
    /\ \E mathRandom \in MathRandoms, loads \in BOOLEAN :
         /\ page' = autoLoadPuzzle(page, file, mathRandom, loads)
         /\ last' = loaded(file[page.currentImagePath], loads)
    /\ request' = [request EXCEPT !["A"] = none]
    /\ UNCHANGED <<file, saveTimeout, switchVars>>

NextSwitch ==
    \/ NewPuzzle
    \/ MoveEnd
    \/ SaveTimerRuns
    \/ ImageChangeBegins
    \/ LoadArrives

SpecSwitch == InitPage /\ [][NextSwitch]_vars

\* C33: a save stores the pieces of the puzzle of the image it is saved
\* under: when a save writes the file of an image, the pieces of the engine
\* were cut from that image.
C33_SavedUnderOwnImage ==
    [][ last' = "save" => page.image = page.currentImagePath ]_vars

\* the file of the image chosen last holds the pieces of the image before,
\* written by the save that was pending when the image was changed
C33_Witness ==
    /\ last = "save"
    /\ ~settled
    /\ page.image # page.currentImagePath
    /\ file[page.currentImagePath].exists
    /\ file[page.currentImagePath].pieces = getSharedState(page).pieces

(***************************************************************************)
(* The event stream of the page.  request["A"] is the PuzzleAPI object of  *)
(* the page: its eventSource (the image of its url and its readyState),    *)
(* whether onPuzzleUpdate is set, and the images of the reconnect timers   *)
(* that are pending (a second timer for an image is not counted);          *)
(* asked is the image the page script has subscribed to last, "none" after *)
(* its unsubscribe.                                                        *)
(***************************************************************************)
noSource == [image |-> "none", readyState |-> "none"]
noApi == [eventSource |-> noSource, onPuzzleUpdate |-> FALSE, timers |-> {}, asked |-> "none"]

\* unsubscribe: the stream is closed and forgotten, the callback is unset
unsubscribe(api) ==
    [api EXCEPT !.eventSource = noSource, !.onPuzzleUpdate = FALSE]

\* subscribe: unsubscribe, then a new EventSource for the image
subscribe(api, imagePath) ==
    [unsubscribe(api) EXCEPT !.eventSource = [image |-> imagePath, readyState |-> "CONNECTING"],
                             !.onPuzzleUpdate = TRUE]

\* the listener of the timeout event and the onerror of a closed stream:
\* setTimeout(() => this.subscribe(imagePath, ...)) with the image of the
\* subscribe call that made the stream
reconnectLater(api) ==
    [api EXCEPT !.timers = @ \cup {api.eventSource.image}]

streamVars == <<eng, gesture, saveTimeout, server, unseen, updates, moved, view, event,
                clock, file, front>>

InitStream ==
    /\ eng = [u \in Users |-> constructor]
    /\ server = none
    /\ gesture = [u \in Users |-> "none"]
    /\ last = "init"
    /\ saveTimeout = [u \in Users |-> FALSE]
    /\ request = [u \in Users |-> IF u = "A" THEN noApi ELSE none]
    /\ unseen = [u \in Users |-> FALSE]
    /\ updates = 0
    /\ moved = [u \in Users |-> <<>>]
    /\ view = constructorView
    /\ event = noEvent
    /\ clock = noTimer
    /\ page = noPage
    /\ file = noFile
    /\ front = [u \in Users |-> 0]

\* subscribeToUpdates of the page script, at the end of init and of
\* handleImageChange
PageSubscribes ==
    /\ request["A"].asked = "none"
    /\ request' = [request EXCEPT !["A"] =
                     [subscribe(@, page.currentImagePath) EXCEPT !.asked = page.currentImagePath]]
    /\ last' = "subscribe"
    /\ UNCHANGED <<page, streamVars>>

\* handleImageChange up to its await: unsubscribe and the new path
PageChangesImage ==
    /\ request["A"].asked # "none"
    /\ \E imagePath \in imageSelect :
         /\ imagePath # page.currentImagePath
         /\ page' = [page EXCEPT !.currentImagePath = imagePath]
    /\ request' = [request EXCEPT !["A"] = [unsubscribe(@) EXCEPT !.asked = "none"]]
    /\ last' = "unsubscribe"
    /\ UNCHANGED streamVars

\* the connection of the stream is made
StreamOpens ==
    /\ request["A"].eventSource.readyState = "CONNECTING"
    /\ request' = [request EXCEPT !["A"].eventSource.readyState = "OPEN"]
    /\ last' = "connected"
    /\ UNCHANGED <<page, streamVars>>

\* the server ends the stream with the timeout event
StreamTimeout ==
    /\ request["A"].eventSource.readyState = "OPEN"
    /\ request' = [request EXCEPT !["A"] = reconnectLater(@)]
    /\ last' = "timeout"
    /\ UNCHANGED <<page, streamVars>>

\* the stream fails for good: onerror with readyState CLOSED
StreamError ==
    /\ request["A"].eventSource.readyState \in {"CONNECTING", "OPEN"}
    /\ request' = [request EXCEPT !["A"] =
                     reconnectLater([@ EXCEPT !.eventSource.readyState = "CLOSED"])]
    /\ last' = "error"
    /\ UNCHANGED <<page, streamVars>>

\* a reconnect timer runs out
ReconnectTimer ==
    /\ \E imagePath \in request["A"].timers :
         request' = [request EXCEPT !["A"] =
                       [subscribe(@, imagePath) EXCEPT !.timers = @ \ {imagePath}]]
    /\ last' = "reconnect"
    /\ UNCHANGED <<page, streamVars>>

\* a puzzleUpdate event of the stream: the callback is called if it is set
PuzzleUpdate ==
    /\ request["A"].eventSource.readyState = "OPEN"
    /\ last' = IF request["A"].onPuzzleUpdate THEN "update" ELSE "update.dropped"
    /\ UNCHANGED <<request, page, streamVars>>

NextStream ==
    \/ PageSubscribes
    \/ PageChangesImage
    \/ StreamOpens
    \/ StreamTimeout
    \/ StreamError
    \/ ReconnectTimer
    \/ PuzzleUpdate

SpecStream == InitStream /\ [][NextStream]_vars

\* C34: the stream that is open is the stream of the image the page has
\* subscribed to last, and none is open after the page has unsubscribed; so
\* every update handed to the update handler is one of that image.
C34_StreamOfAskedImage ==
    request["A"].eventSource.readyState \in {"CONNECTING", "OPEN"}
       => request["A"].eventSource.image = request["A"].asked

\* an update has been handed to the handler from a stream that a reconnect
\* timer opened for the image before, while the page is subscribed to
\* another image
C34_Witness ==
    /\ last = "update"
    /\ request["A"].asked = page.currentImagePath
    /\ request["A"].eventSource.readyState = "OPEN"
    /\ request["A"].eventSource.image # page.currentImagePath

(***************************************************************************)
(* A save and a selection update that run at the same time in api.php,     *)
(* each in the process of its request.  safeReadJson and safeWriteJson are *)
(* each one step; nothing holds the file between the read of a request and *)
(* its write.  request[u] is the request of user u between the two: what   *)
(* it has read and what was posted.  moved[u] keeps the pieceIds of the    *)
(* last selection update of user u that has completed.                     *)
(***************************************************************************)
\* the state a page posts after a piece has been moved
postedMoved ==
    [postedState EXCEPT !.pieces[1].currentX = @ + Step]

overlapVars == <<eng, gesture, saveTimeout, server, unseen, updates, view, event, page, front>>

\* saveSharedPuzzle up to $existingState = safeReadJson($statePath)
SaveReads(u) ==
    /\ request[u] = none
    /\ \E state \in {postedState, postedMoved} :
         request' = [request EXCEPT ![u] =
                       [ action |-> "saveShared", state |-> state,
                         existingState |-> file[sharedImage] ]]
    /\ last' = "save.read"
    /\ UNCHANGED <<file, clock, moved>>
    /\ UNCHANGED overlapVars

\* the rest of saveSharedPuzzle: $stateData is written
SaveWrites(u) ==
    /\ openRequest(u) = "saveShared"
    /\ file' = [file EXCEPT ![sharedImage] =
                  written(stateData([image |-> sharedImage, state |-> request[u].state],
                                    request[u].existingState), time)]
    /\ request' = [request EXCEPT ![u] = none]
    /\ last' = "save"
    /\ UNCHANGED <<clock, moved>>
    /\ UNCHANGED overlapVars

\* updateSelection up to $state = safeReadJson($statePath); 404 without a
\* file
SelectionReads(u) ==
    /\ request[u] = none
    /\ IF file[sharedImage].exists
       THEN /\ \E pieceIds \in {<<>>, <<Own[u]>>} :
                 request' = [request EXCEPT ![u] =
                               [ action |-> "updateSelection", pieceIds |-> pieceIds,
                                 state |-> file[sharedImage] ]]
            /\ last' = "select.read"
       ELSE /\ request' = request
            /\ last' = "select.404"
    /\ UNCHANGED <<file, clock, moved>>
    /\ UNCHANGED overlapVars

\* the rest of updateSelection: $state with the selection is written
SelectionWrites(u) ==
    /\ openRequest(u) = "updateSelection"
    /\ file' = [file EXCEPT ![sharedImage] =
                  updateSelection(request[u].state, u, request[u].pieceIds, time)]
    /\ moved' = [moved EXCEPT ![u] = request[u].pieceIds]
    /\ request' = [request EXCEPT ![u] = none]
    /\ last' = "select"
    /\ UNCHANGED clock
    /\ UNCHANGED overlapVars

\* a second passes
SecondPasses ==
    /\ time < StartSecond + MaxSeconds
    /\ clock' = [clock EXCEPT !.now = @ + 1000]
    /\ last' = "tick"
    /\ UNCHANGED <<request, file, moved>>
    /\ UNCHANGED overlapVars

NextOverlap ==
    \/ SaveReads("A")
    \/ SaveWrites("A")
    \/ SelectionReads("B")
    \/ SelectionWrites("B")
    \/ SecondPasses

SpecOverlap == InitSelections /\ [][NextOverlap]_vars

\* C35: a save leaves the selections of the file as they are and a
\* selection update leaves the pieces of the file as they are, also when
\* the other request runs between its read and its write.
C35_SaveAndSelectionApart ==
    [][ /\ (last' = "save" /\ file[sharedImage].exists)
           => file'[sharedImage].selections = file[sharedImage].selections
        /\ last' = "select"
           => file'[sharedImage].pieces = file[sharedImage].pieces ]_vars

\* a save has completed after the selection update of the other user, which
\* set a selection within the same second, and the file is without it
C35_Witness ==
    /\ last = "save"
    /\ request["B"] = none
    /\ moved["B"] = <<Own["B"]>>
    /\ time = StartSecond
    /\ "B" \notin DOMAIN file[sharedImage].selections

(***************************************************************************)
(* The backups of an image in api.php.  server is the backups directory:   *)
(* it maps the time() in the name of a backup file, backup_<Ymd_His>.json, *)
(* to what the file holds; the names sort as their times do.  The file of  *)
(* the image keeps metadata.lastBackup as lastBackup.  request["A"] is the *)
(* restore request that was answered last.                                 *)
(***************************************************************************)
\* the two are defined outside the files at hand
MAX_BACKUPS == 2
BACKUP_INTERVAL == 2

noBackups == <<>>

\* what a file holds, apart from its time of modification
content(f) == [k \in DOMAIN f \ {"mtime"} |-> f[k]]

\* cleanupBackups: the oldest are unlinked until MAX_BACKUPS are left
cleanupBackups(backups) ==
    IF Cardinality(DOMAIN backups) <= MAX_BACKUPS THEN backups
    ELSE LET kept == {t \in DOMAIN backups :
                        Cardinality({o \in DOMAIN backups : o > t}) < MAX_BACKUPS}
         IN [t \in kept |-> backups[t]]

\* createBackup: nothing without a state file; the state is copied to the
\* backup named after now, the old backups are cleaned up
createBackup(f, backups, now) ==
    IF ~f.exists THEN backups
    ELSE cleanupBackups(put(backups, now, content(f)))

\* saveSharedPuzzle with its periodic backup: the file and the backups after
\* it; every file it has written has a lastBackup
saveWithBackup(f, backups, data, now) ==
    LET shouldBackup == f.exists /\ now - f.lastBackup >= BACKUP_INTERVAL
        lastBackup == IF shouldBackup \/ ~f.exists THEN now ELSE f.lastBackup
        stateDataOf == stateData(data, f)
    IN [ file |-> written([k \in DOMAIN stateDataOf \cup {"lastBackup"} |->
                              IF k = "lastBackup" THEN lastBackup ELSE stateDataOf[k]], now),
         backups |-> IF shouldBackup THEN createBackup(f, backups, now) ELSE backups ]

\* restoreBackup: 404 without the backup file; the current state is backed
\* up; the backup file is copied to the state, 500 if that fails
restoreBackup(f, backups, backupFile, now) ==
    IF backupFile \notin DOMAIN backups
    THEN [file |-> f, backups |-> backups, status |-> 404]
    ELSE LET after == IF f.exists THEN createBackup(f, backups, now) ELSE backups
         IN IF backupFile \in DOMAIN after
            THEN [file |-> written(after[backupFile], now), backups |-> after, status |-> 200]
            ELSE [file |-> f, backups |-> after, status |-> 500]

backupVars == <<eng, gesture, saveTimeout, unseen, updates, moved, view, event, page, front>>

InitBackup ==
    /\ eng = [u \in Users |-> constructor]
    /\ server = noBackups
    /\ gesture = [u \in Users |-> "none"]
    /\ last = "init"
    /\ saveTimeout = [u \in Users |-> FALSE]
    /\ request = [u \in Users |-> none]
    /\ unseen = [u \in Users |-> FALSE]
    /\ updates = 0
    /\ moved = [u \in Users |-> <<>>]
    /\ view = constructorView
    /\ event = noEvent
    /\ clock = [noTimer EXCEPT !.now = StartSecond * 1000]
    /\ page = noPage
    /\ file = noFile
    /\ front = [u \in Users |-> 0]

\* a second passes
BackupSecond ==
    /\ time < StartSecond + MaxSeconds
    /\ clock' = [clock EXCEPT !.now = @ + 1000]
    /\ last' = "tick"
    /\ UNCHANGED <<request, file, server>>
    /\ UNCHANGED backupVars

\* POST saveShared
SaveBackedUp ==
    /\ \E state \in {postedState, postedMoved} :
         LET r == saveWithBackup(file[sharedImage], server,
                                 [image |-> sharedImage, state |-> state], time)
         IN /\ file' = [file EXCEPT ![sharedImage] = r.file]
            /\ server' = r.backups
    /\ last' = "save"
    /\ UNCHANGED <<request, clock>>
    /\ UNCHANGED backupVars

\* GET restoreBackup with a backup of the list the page shows
RestoreBackup ==
    /\ \E backupFile \in DOMAIN server :
         LET r == restoreBackup(file[sharedImage], server, backupFile, time)
         IN /\ file' = [file EXCEPT ![sharedImage] = r.file]
            /\ server' = r.backups
            /\ request' = [request EXCEPT !["A"] =
                             [ action |-> "restoreBackup", backup |-> backupFile,
                               status |-> r.status ]]
    /\ last' = "restore"
    /\ UNCHANGED clock
    /\ UNCHANGED backupVars

NextBackup ==
    \/ BackupSecond
    \/ SaveBackedUp
    \/ RestoreBackup

SpecBackup == InitBackup /\ [][NextBackup]_vars

\* C36: a restore of a backup that is there when the request is made
\* succeeds, and the state is then what that backup held, also with
\* MAX_BACKUPS backups in the directory.
C36_RestoreSucceeds ==
    [][ last' = "restore"
        => /\ request'["A"].status = 200
           /\ content(file'[sharedImage]) = server[request'["A"].backup] ]_vars

\* the oldest of MAX_BACKUPS backups was asked for and the restore has
\* failed: the backup is gone and the state is not what it held
C36_Witness ==
    /\ last = "restore"
    /\ openRequest("A") = "restoreBackup"
    /\ request["A"].status = 500
    /\ request["A"].backup \notin DOMAIN server
    /\ Cardinality(DOMAIN server) = MAX_BACKUPS

(***************************************************************************)
(* The completion message of the page script.  request["A"] keeps what the *)
(* page script holds about it: completionShown, the field it adds to the   *)
(* engine object; puzzles, the puzzles that were set up so far; alerts,    *)
(* the completion messages shown since the puzzle at hand was set up.      *)
(***************************************************************************)
\* the puzzles that are set up in one run
MaxPuzzles == 2

\* getProgress: Math.round of the percentage of placed pieces
getProgress(e) ==
    LET totalPieces == Cardinality(DOMAIN e.pieces)
    IN IF totalPieces > 0
       THEN (200 * e.placedPieces + totalPieces) \div (2 * totalPieces)
       ELSE 0

\* showCompletionMessage: nothing if completionShown, else it is set and the
\* alert is shown
showCompletionMessage(c) ==
    IF c.completionShown THEN c
    ELSE [c EXCEPT !.completionShown = TRUE, !.alerts = @ + 1]

\* updateStats, the callback of setInterval
updateStats(e, c) ==
    IF getProgress(e) = 100 /\ Cardinality(DOMAIN e.pieces) > 0
    THEN showCompletionMessage(c)
    ELSE c

newPieces == [p \in PieceIds |-> createPiece(p, shuffle[p])]

completionVars == <<gesture, saveTimeout, server, unseen, updates, moved, view, event,
                    clock, page, file>>

InitCompletion ==
    /\ eng = [u \in Users |-> IF u = "A" THEN init ELSE constructor]
    /\ server = none
    /\ gesture = [u \in Users |-> "none"]
    /\ last = "init"
    /\ saveTimeout = [u \in Users |-> FALSE]
    /\ request = [u \in Users |->
                    IF u = "A"
                    THEN [action |-> "stats", completionShown |-> FALSE,
                          puzzles |-> 1, alerts |-> 0]
                    ELSE none]
    /\ unseen = [u \in Users |-> FALSE]
    /\ updates = 0
    /\ moved = [u \in Users |-> <<>>]
    /\ view = constructorView
    /\ event = noEvent
    /\ clock = noTimer
    /\ page = noPage
    /\ file = noFile
    /\ front = [u \in Users |-> 0]

\* a hold and drag that puts a piece down on its solved position
PieceDragged ==
    /\ \E p \in DOMAIN eng["A"].pieces :
         /\ ~eng["A"].pieces[p].isLocked
         /\ Step1("A", "drag", Drag(eng["A"], p, <<0, 0>>))
    /\ UNCHANGED request
    /\ UNCHANGED completionVars

\* the interval of updateStats has elapsed
UpdateStats ==
    /\ request' = [request EXCEPT !["A"] = updateStats(eng["A"], @)]
    /\ last' = "stats"
    /\ UNCHANGED <<eng, front>>
    /\ UNCHANGED completionVars

\* handleResetPuzzle after its confirmations: the pieces are taken away
PiecesTakenAway ==
    /\ hasPieces("A")
    /\ Step1("A", "reset", setPieces(eng["A"], <<>>))
    /\ UNCHANGED request
    /\ UNCHANGED completionVars

\* startNewPuzzle after a reset, or autoLoadPuzzle after the image was
\* changed: the pieces of the next puzzle are set
NextPuzzle ==
    /\ request["A"].puzzles < MaxPuzzles
    /\ Step1("A", "cut", setPieces(eng["A"], newPieces))
    /\ request' = [request EXCEPT !["A"].puzzles = @ + 1, !["A"].alerts = 0]
    /\ UNCHANGED completionVars

NextCompletion ==
    \/ PieceDragged
    \/ UpdateStats
    \/ PiecesTakenAway
    \/ NextPuzzle

SpecCompletion == InitCompletion /\ [][NextCompletion]_vars

\* C38: the completion message is shown at most once for a puzzle, and it
\* has been shown once when updateStats has run with every piece of the
\* puzzle placed, for the second puzzle of a session as for the first.
C38_ShownOncePerPuzzle ==
    /\ request["A"].alerts <= 1
    /\ (last = "stats" /\ getProgress(eng["A"]) = 100) => request["A"].alerts = 1

\* updateStats has run with every piece of the second puzzle placed and no
\* message was shown for it
C38_Witness ==
    /\ last = "stats"
    /\ request["A"].puzzles = 2
    /\ hasPieces("A")
    /\ \A p \in PieceIds : eng["A"].pieces[p].isPlaced
    /\ eng["A"].placedPieces = NumPieces
    /\ request["A"].alerts = 0

====
